---------------------------- MODULE Spec2Model ----------------------------
(***************************************************************************)
(* A model of niacin's sampler (niacin/augment/randaugment.py, RandAugment) *)
(* and of the substitution engines of niacin/text/en/char.py (_sub_chars,   *)
(* swap_chars) and niacin/text/en/word.py (_sub_words, swap_words).         *)
(*                                                                         *)
(* Conventions.                                                            *)
(*  - A Python str is a sequence of one-character strings.                 *)
(*  - Python indexes are kept 0-based, as in the source; Slice(s, a, b) is  *)
(*    s[a:b].                                                              *)
(*  - A probability is a double of the form fl(v / 100) with v an integer  *)
(*    in 0..100 (the only doubles the sampler's m setter can store for     *)
(*    integer magnitudes).  The model stores the numerator v ("hundredths") *)
(*    so 0 is 0.0 and 100 is 1.0; TimesHundredTruncated(v) computes        *)
(*    int(fl(v/100) * 100) in IEEE-754 binary64 arithmetic.                *)
(*  - A random draw is a nondeterministic choice over the values the draw  *)
(*    can produce.                                                         *)
(***************************************************************************)
EXTENDS Integers, Sequences, FiniteSets, TLC

VARIABLES
    pc,           \* "new": no sampler yet; "live": constructed; "failed": __init__ raised
    callerList,   \* the list object the caller passed to RandAugment(...)
    _transforms,  \* self._transforms
    _n,           \* self._n
    _p,           \* self._p, in hundredths
    _shuffle,     \* self._shuffle
    choices,      \* the list built by the latest __iter__ call (records idx, fun, p)
    pos,          \* how many items of choices the consumer's loop has taken
    nGiven,       \* history: the value last given to the n setter
    mGiven,       \* history: the value last given to the m setter
    lastCall,     \* history: the latest call made on the sampler and whether it raised
    inp,          \* the consumer's string before its loop over the sampler
    text,         \* the consumer's string, rebound to transform(text) by its loop
    string,       \* _sub_chars: the local variable string; the other engines: the string returned
    index,        \* the engines' local variable index
    entry,        \* 1-based position in mapping.items() of the item being scanned
    mapping,      \* the mapping argument, as the sequence of its (pattern, sub) items
    probability,  \* the probability argument, in hundredths
    original,     \* history: the string the engine was called with
    spc,          \* "idle", "scan" (inside the loops) or "done" (returned)
    draws,        \* history: Bernoulli draws made so far by the running scan
    scanned,      \* history: the string as it was when the running pattern's scan began
    origin,       \* history: for each character of string, the mapping item whose
                  \* replacement wrote it (0: a character of the input)
    fn,           \* the engine function that was called
    words,        \* _sub_words, swap_words: the list words; swap_chars: the list chars
    perm,         \* history: for each element of words, its 0-based index in the initial list
    earlier,      \* history: the strings given to the earlier calls of a chain of calls
    successes,    \* history: how many draws of the running right-to-left scan came out 1
    xlen,         \* freq.py: len(x), the number of samples given
    mag,          \* freq.py: the argument m, in hundredths
    fx,           \* freq.py: the array fx, each entry a record of the frequency
                  \* component it holds (c) and of what was done to its value (amp)
    ps,           \* freq.py: the array ps
    signs,        \* add_discrete_phase_shifts: the array signs
    step,         \* add_discrete_phase_shifts: the local variable step
    swaps,        \* history: for each position of fx, the exchanges it took part in
    res,          \* freq.py: whether the call raised, and the length of the array returned
    translators,  \* _Translator.translators: the names the class-level table holds
    loads,        \* history: for each model name, how often torch.hub.load returned it
    forces,       \* history: how many calls of load_models(force=True) were made
    made,         \* history: how many _Translator objects were constructed
    tcall,        \* history: the latest call on the translator or of add_backtranslation
    samplers,     \* two RandAugment objects: for each its attributes, _rng included
    yielded,      \* history: for each of the two, the selections its iterations made
    oracle,       \* history: what choice returned for each generator state and
                  \* arguments it was called with so far
    last,         \* history: for each of the two, its latest call and whether it raised
    dataset,      \* a MemoryTextDataset: its attributes _data, _labels and _transforms
    access,       \* the running or latest __getitem__ call: its position, its index
                  \* and label, its tokens and vector, and the sampler's n when it began
    applied       \* history: the transform calls the running or latest __getitem__ made

samplerVars == <<pc, callerList, _transforms, _n, _p, _shuffle, choices, pos,
                 nGiven, mGiven, lastCall, inp, text>>
scanVars == <<draws, scanned, origin>>
listVars == <<fn, words, perm, earlier>>
subVars == <<string, index, entry, mapping, probability, original, spc, scanVars, listVars>>
freqVars == <<xlen, mag, fx, ps, signs, step, swaps, res>>
translatorVars == <<translators, loads, forces, made, tcall>>
instanceVars == <<samplers, yielded, oracle, last>>
datasetVars == <<dataset, access, applied>>
extVars == <<successes, freqVars, translatorVars, instanceVars, datasetVars>>
vars == <<samplerVars, subVars, extVars>>

-----------------------------------------------------------------------------
(* Bounds of the model.                                                    *)

MaxPool == 3        \* longest pool given to the constructor
MaxText == 3        \* longest string the consumer starts from
ExtraM == 1         \* magnitudes reach from -ExtraM to 100 + ExtraM
MaxLen == 3         \* longest string given to _sub_chars
MaxPhrases == 3     \* most pieces in a string given to add_contractions
MaxSamples == 6     \* longest array given to the frequency-domain transforms
MaxCalls == 4       \* most calls made on the translator
MaxIterations == 3  \* most selections made by two samplers together
MaxAccesses == 2    \* most item accesses made on the dataset

-----------------------------------------------------------------------------
(* Python helpers.                                                         *)

Min(a, b) == IF a < b THEN a ELSE b
Max(a, b) == IF a > b THEN a ELSE b

\* s[a:b] for 0 <= a, 0 <= b (clipped to the string like Python's slice)
Slice(s, a, b) == SubSeq(s, Min(a, Len(s)) + 1, Min(b, Len(s)))

\* s[a:]
SliceFrom(s, a) == Slice(s, a, Len(s))

Range(s) == {s[i] : i \in 1..Len(s)}

\* the strings of length 0..n over the characters of alphabet
RECURSIVE StringsUpTo(_, _)
StringsUpTo(alphabet, n) ==
    IF n = 0 THEN {<<>>}
    ELSE LET shorter == StringsUpTo(alphabet, n - 1)
         IN  shorter \cup {Append(s, c) : s \in {t \in shorter : Len(t) = n - 1}, c \in alphabet}

\* str.lower() of one character.  "U0130" stands for the character U+0130
\* (capital I with dot above), whose lower case is the two characters "i", U+0307.
LowerChar(c) ==
    CASE c = "A" -> <<"a">>
      [] c = "B" -> <<"b">>
      [] c = "I" -> <<"i">>
      [] c = "T" -> <<"t">>
      [] c = "U0130" -> <<"i", "U0307">>
      [] OTHER -> <<c>>

\* str.lower()
RECURSIVE Lower(_)
Lower(s) == IF s = <<>> THEN <<>> ELSE LowerChar(Head(s)) \o Lower(Tail(s))

\* str.find(pattern, start) for start >= 0: the lowest i >= start with
\* hay[i:i+len(pattern)] == pattern, or -1
Find(hay, pattern, start) ==
    LET found == {i \in start..(Len(hay) - Len(pattern)) :
                     Slice(hay, i, i + Len(pattern)) = pattern}
    IN  IF found = {} THEN -1
        ELSE CHOOSE i \in found : \A k \in found : i <= k

\* scipy.random.binomial(1, p): the values one Bernoulli draw can take
Binomial1(p) == IF p <= 0 THEN {0} ELSE IF p >= 100 THEN {1} ELSE {0, 1}

-----------------------------------------------------------------------------
(* IEEE-754 binary64 arithmetic of the m getter, int(self._p * 100), for   *)
(* self._p = fl(v / 100), 0 <= v <= 100, in integer arithmetic.            *)
(*                                                                         *)
(* Let k be the k with 100 <= v * 2^k < 200 and e = 52 + k.  The mantissa  *)
(* of fl(v/100) is M = round(v * 2^e / 100), so 100 * M = v * 2^e + d with  *)
(* r = (v * 2^e) mod 100 and d = -r if r < 50, d = 100 - r if r > 50       *)
(* (r = 50 cannot happen: v * 2^e is a multiple of 4).  The exact product  *)
(* fl(v/100) * 100 is v + d / 2^e.  For d >= 0 it rounds to a double in    *)
(* [v, v + 1), truncated to v.  For d < 0 it lies just below v, where      *)
(* doubles are 2^(b - 53) apart, b the b with 2^(b-1) < v <= 2^b; it       *)
(* rounds up to v (whose mantissa is even) iff -d / 2^e <= 2^(b - 54),     *)
(* i.e.  -d <= 2^(k + b - 2), and otherwise to a double below v, truncated *)
(* to v - 1.                                                               *)

RECURSIVE Pow2(_)
Pow2(e) == IF e <= 0 THEN 1 ELSE 2 * Pow2(e - 1)

RECURSIVE Pow2Mod100(_)
Pow2Mod100(e) == IF e = 0 THEN 1 ELSE (2 * Pow2Mod100(e - 1)) % 100

\* the k with 100 <= v * 2^k < 200, for 1 <= v < 100
RECURSIVE BinadeShift(_, _)
BinadeShift(v, k) == IF v * Pow2(k) >= 100 THEN k ELSE BinadeShift(v, k + 1)

\* the b with 2^(b-1) < v <= 2^b, for v >= 1
RECURSIVE BitCeil(_, _)
BitCeil(v, b) == IF Pow2(b) >= v THEN b ELSE BitCeil(v, b + 1)

\* int(fl(v / 100) * 100) for the stored numerator v in 0..100
TimesHundredTruncated(v) ==
    IF v <= 0 THEN 0
    ELSE IF v >= 100 THEN 100
    ELSE LET k == BinadeShift(v, 0)
             b == BitCeil(v, 0)
             r == (v * Pow2Mod100(52 + k)) % 100
             d == IF r < 50 THEN 0 - r ELSE 100 - r
         IN  IF d >= 0 \/ 0 - d <= Pow2(k + b - 2) THEN v ELSE v - 1

-----------------------------------------------------------------------------
(* Character transforms of niacin/text/en/char.py used as pool functions.  *)

\* a loop body whose test is inverted: it replaces when the draw fails
SubCharsReplaceOrSkipInverted(str, i, pattern, sub, d) ==
    IF d = 0
    THEN [string |-> Slice(str, 0, i) \o sub \o SliceFrom(str, i + Len(pattern)),
          index |-> i + Len(sub)]
    ELSE [string |-> str, index |-> i + Len(pattern)]

\* one pass of the loop body of _sub_chars with the pattern found at i and
\* the Bernoulli draw d: the new values of the locals string and index
SubCharsReplaceOrSkip(str, i, pattern, sub, d) ==
    IF d = 1
    THEN [string |-> Slice(str, 0, i) \o sub \o SliceFrom(str, i + Len(pattern)),
          index |-> i + Len(sub)]
    ELSE [string |-> str, index |-> i + Len(pattern)]

\* the while loop of _sub_chars for one (pattern, sub) item, from the given
\* index: the strings it can end with, over all outcomes of the draws
RECURSIVE SubCharsScan(_, _, _, _, _)
SubCharsScan(str, idx, pattern, sub, p) ==
    IF ~(0 <= idx /\ idx < Len(str)) THEN {str}
    ELSE LET i == Find(Lower(str), pattern, idx)
         IN  IF i < 0 THEN {str}
             ELSE UNION {LET st == SubCharsReplaceOrSkip(str, i, pattern, sub, d)
                         IN  SubCharsScan(st.string, st.index, pattern, sub, p)
                         : d \in Binomial1(p)}

\* _sub_chars from item e of the mapping on: the strings it can return
RECURSIVE SubCharsFrom(_, _, _, _)
SubCharsFrom(str, p, items, e) ==
    IF e > Len(items) THEN {str}
    ELSE UNION {SubCharsFrom(s, p, items, e + 1)
                : s \in SubCharsScan(str, 0, items[e][1], items[e][2], p)}

\* _sub_chars(string, probability, mapping), mapping given as its items
\* (for mappings without an empty pattern)
sub_chars(str, p, items) == SubCharsFrom(str, p, items, 1)

\* remove_whitespace(string, p)
remove_whitespace(str, p) == sub_chars(str, p, << <<(<<" ">>), <<>> >> >>)

\* add_whitespace(string, p) from loop index idx downwards
RECURSIVE AddWhitespaceFrom(_, _, _)
AddWhitespaceFrom(str, idx, p) ==
    IF idx < 0 THEN {str}
    ELSE UNION {AddWhitespaceFrom(
                    IF d = 1 THEN Slice(str, 0, idx) \o <<" ">> \o SliceFrom(str, idx)
                    ELSE str, idx - 1, p)
                : d \in Binomial1(p)}

\* add_whitespace(string, p)
add_whitespace(str, p) == AddWhitespaceFrom(str, Len(str), p)

\* calling the pool function named fun with p bound: the strings it can return
CallTransform(fun, str, p) ==
    CASE fun = "add_whitespace" -> add_whitespace(str, p)
      [] fun = "remove_whitespace" -> remove_whitespace(str, p)

-----------------------------------------------------------------------------
(* numpy.random.Generator.choice(a, size, replace=False, shuffle=...), as   *)
(* called by RandAugment.__iter__.  For a population of at most 10000 it    *)
(* runs Floyd's algorithm: for j = pop_size - size .. pop_size - 1 it draws *)
(* val uniformly from 0..j and takes val, or j when val was taken before;   *)
(* with shuffle it then shuffles the taken indexes in place.                *)

\* the pool functions of the model (niacin.text.en transforms)
Funs == {"add_whitespace", "remove_whitespace"}

\* the conditions under which choice raises ValueError
ChoiceRaises(popSize, size) ==
    \/ popSize = 0 /\ size # 0
    \/ size > popSize
    \/ size < 0

\* the raw draws of Floyd's loop: draw i is uniform on 0..j, j = popSize - size + i - 1
FloydDraws(popSize, size) ==
    {f \in [1..size -> 0..Max(popSize - 1, 0)] :
        \A i \in 1..size : f[i] <= popSize - size + i - 1}

\* the index Floyd's loop takes for draw val at step j, given the indexes taken so far
FloydPick(val, j, taken) == IF val \in taken THEN j ELSE val

\* the first i indexes taken by Floyd's loop under the draws f
RECURSIVE FloydIdx(_, _, _, _)
FloydIdx(popSize, size, f, i) ==
    IF i = 0 THEN <<>>
    ELSE LET prev == FloydIdx(popSize, size, f, i - 1)
         IN  Append(prev, FloydPick(f[i], popSize - size + i - 1, Range(prev)))

\* the raw draws of _shuffle_int over n items: for i = n-1 down to 1, a draw on 0..i
ShuffleDraws(n) ==
    {s \in [1..Max(n - 1, 0) -> 0..Max(n - 1, 0)] : \A i \in 1..(n - 1) : s[i] <= i}

\* _shuffle_int from position i (0-based) down to 1: swap data[i] and data[s[i]]
RECURSIVE ShuffleFrom(_, _, _)
ShuffleFrom(data, s, i) ==
    IF i < 1 THEN data
    ELSE ShuffleFrom([data EXCEPT ![i + 1] = data[s[i] + 1], ![s[i] + 1] = data[i + 1]],
                     s, i - 1)

\* the 0-based indexes choice selects, under Floyd draws f and shuffle draws s
ChoiceIdx(popSize, size, shuffle, f, s) ==
    LET idx == FloydIdx(popSize, size, f, size)
    IN  IF shuffle THEN ShuffleFrom(idx, s, size - 1) ELSE idx

\* the index sequences choice can return, over all outcomes of its draws
ChoiceOutcomes(popSize, size, shuffle) ==
    {ChoiceIdx(popSize, size, shuffle, f, s) :
        f \in FloydDraws(popSize, size),
        s \in ShuffleDraws(IF shuffle THEN size ELSE 0)}

-----------------------------------------------------------------------------
(* RandAugment.                                                            *)

\* an n setter that is off by one: it lets len(self._transforms) + 1 through
n_setter_raises_late(value, n_funs) == value > n_funs + 1

\* the n setter's test: value > len(self._transforms)
n_setter_raises(value, n_funs) == value > n_funs

\* an m setter that stores value / 100 without clamping it
m_setter_unclamped(value) == value

\* the m setter: min(max(value / 100, 0.0), 1.0), in hundredths
m_setter(value) == Min(Max(value, 0), 100)

\* the m getter: int(self._p * 100)
m_getter(p) == TimesHundredTruncated(p)

\* a sampler that keeps the caller's list instead of a copy of it:
\* __len__ then follows the caller's changes
len_sampler_aliased == Len(callerList)

\* __len__
len_sampler == Len(_transforms)

\* choice's outcomes for every pool size, sample size and shuffle flag of the model
ChoiceTable ==
    UNION {{<<k, n, sh, idx>> : idx \in ChoiceOutcomes(k, n, sh)} :
              k \in 0..MaxPool, n \in 0..MaxPool, sh \in BOOLEAN}

\* the same call with replace=True: every position is drawn from the whole pool
RngChoiceWithReplacement(popSize, size, shuffle) == [1..size -> 0..(popSize - 1)]

\* self._rng.choice(self._transforms, size=self._n, replace=False, shuffle=self._shuffle):
\* the index sequences it can select when it does not raise
RngChoice(popSize, size, shuffle) ==
    {t[4] : t \in {u \in ChoiceTable : u[1] = popSize /\ u[2] = size /\ u[3] = shuffle}}

\* partial(fun, p=self._p) for the pool function at 0-based index i
Partial(i, p) == [idx |-> i, fun |-> _transforms[i + 1], p |-> p]

Call(op, raised) == [op |-> op, raised |-> raised]

\* the pools given to the constructor: [add_whitespace, remove_whitespace,
\* add_whitespace, ...] cut to each length 0..MaxPool
PoolOfSize(k) == [i \in 1..k |-> IF i % 2 = 1 THEN "add_whitespace" ELSE "remove_whitespace"]
Pools == {PoolOfSize(k) : k \in 0..MaxPool}

\* the values given for n: every legal one, one below and one above
NValues == (0 - 1)..(MaxPool + 1)

\* the values given for m: the bounds the tests use (-1, 0, 100, 101) and one of
\* the "magnitudes in the 20s and 30s" the class docstring speaks of
Magnitudes == {0 - ExtraM, 0, 29, 100, 100 + ExtraM}

\* the values given for m where the consumer applies the transforms: those of
\* test_transforms and the out-of-range ones
PipelineMagnitudes == {0 - ExtraM, 0, 100, 100 + ExtraM}

\* the strings the consumer starts from: "a a a ..." cut to MaxText, and ""
SampleText(n) == [i \in 1..n |-> IF i % 2 = 1 THEN "a" ELSE " "]
Inputs == {SampleText(0), SampleText(MaxText)}

SubIdle ==
    /\ string = <<>>
    /\ index = 0
    /\ entry = 0
    /\ mapping = <<>>
    /\ probability = 0
    /\ original = <<>>
    /\ spc = "idle"
    /\ draws = 0
    /\ scanned = <<>>
    /\ origin = <<>>
    /\ fn = "none"
    /\ words = <<>>
    /\ perm = <<>>
    /\ earlier = <<>>

\* no sampler has been constructed
SamplerIdle ==
    /\ pc = "new"
    /\ callerList = <<>>
    /\ _transforms = <<>>
    /\ _n = 0
    /\ _p = 0                   \* the class attribute _p: float = 0.0
    /\ _shuffle = TRUE
    /\ choices = <<>>
    /\ pos = 0
    /\ nGiven = 0
    /\ mGiven = 0
    /\ lastCall = Call("none", FALSE)
    /\ inp = <<>>
    /\ text = <<>>

\* the attributes of a RandAugment object that was not constructed
NoSampler ==
    [live |-> FALSE, _transforms |-> <<>>, _n |-> 0, _p |-> 0, _shuffle |-> TRUE,
     _rng |-> [seed |-> 0, used |-> <<>>]]

\* no dataset has been constructed, and no item of it accessed
NoDataset == [made |-> FALSE, _data |-> <<>>, _labels |-> <<>>, _transforms |-> "list", items |-> <<>>]
NoAccess == [at |-> "idle", index |-> 0, label |-> 0, tokens |-> <<>>, vector |-> <<>>, n |-> 0]

\* nothing else has been called
ExtIdle ==
    /\ successes = 0
    /\ xlen = 0
    /\ mag = 0
    /\ fx = <<>>
    /\ ps = <<>>
    /\ signs = <<>>
    /\ step = 0
    /\ swaps = <<>>
    /\ res = [raised |-> FALSE, len |-> 0]
    /\ translators = {}
    /\ loads = [name \in {"en2de", "de2en"} |-> 0]
    /\ forces = 0
    /\ made = 0
    /\ tcall = [op |-> "none", force |-> FALSE, raised |-> "", n |-> 0]
    /\ samplers = [s \in {1, 2} |-> NoSampler]
    /\ yielded = [s \in {1, 2} |-> <<>>]
    /\ oracle = {}
    /\ last = [s \in {1, 2} |-> Call("none", FALSE)]
    /\ dataset = NoDataset
    /\ access = NoAccess
    /\ applied = <<>>

Init == SamplerIdle /\ SubIdle /\ ExtIdle

\* RandAugment(transforms, m, n, shuffle): __init__
Construct(transforms, m, n, shuffle) ==
    /\ pc = "new"
    /\ callerList' = transforms
    /\ _transforms' = transforms                    \* list(transforms): a copy
    /\ nGiven' = n
    /\ IF n_setter_raises(n, Len(transforms))
       THEN /\ pc' = "failed"
            /\ lastCall' = Call("init", TRUE)
            /\ UNCHANGED <<_n, _p, _shuffle, mGiven>>
       ELSE /\ pc' = "live"
            /\ _n' = n
            /\ _p' = m_setter(m)
            /\ _shuffle' = shuffle
            /\ mGiven' = m
            /\ lastCall' = Call("init", FALSE)
    /\ UNCHANGED <<choices, pos, inp, text>>
    /\ UNCHANGED <<subVars, extVars>>

\* sampler.n = value
SetN(value) ==
    /\ pc = "live"
    /\ nGiven' = value
    /\ IF n_setter_raises(value, Len(_transforms))
       THEN /\ lastCall' = Call("n_set", TRUE)
            /\ UNCHANGED _n
       ELSE /\ lastCall' = Call("n_set", FALSE)
            /\ _n' = value
    /\ UNCHANGED <<pc, callerList, _transforms, _p, _shuffle, choices, pos,
                   mGiven, inp, text>>
    /\ UNCHANGED <<subVars, extVars>>

\* sampler.m = value
SetM(value) ==
    /\ pc = "live"
    /\ _p' = m_setter(value)
    /\ mGiven' = value
    /\ lastCall' = Call("m_set", FALSE)
    /\ UNCHANGED <<pc, callerList, _transforms, _n, _shuffle, choices, pos,
                   nGiven, inp, text>>
    /\ UNCHANGED <<subVars, extVars>>

\* iter(sampler), at the head of the consumer's loop over the string start
Iter(start) ==
    /\ pc = "live"
    /\ inp' = start
    /\ text' = start
    /\ pos' = 0
    /\ IF ChoiceRaises(Len(_transforms), _n)
       THEN /\ lastCall' = Call("iter", TRUE)
            /\ choices' = <<>>
       ELSE /\ \E idx \in RngChoice(Len(_transforms), _n, _shuffle) :
                 choices' = [i \in 1.._n |-> Partial(idx[i], _p)]
            /\ lastCall' = Call("iter", FALSE)
    /\ UNCHANGED <<pc, callerList, _transforms, _n, _p, _shuffle, nGiven, mGiven>>
    /\ UNCHANGED <<subVars, extVars>>

\* next() on the iterator __iter__ returned: the consumer takes one more function
Advance ==
    /\ pc = "live"
    /\ pos < Len(choices)
    /\ pos' = pos + 1
    /\ UNCHANGED <<pc, callerList, _transforms, _n, _p, _shuffle, choices,
                   nGiven, mGiven, lastCall, inp>>
    /\ UNCHANGED <<subVars, extVars>>

\* the consumer takes the next function and keeps it uncalled
IterNext == Advance /\ UNCHANGED text

\* one pass of the consumer's loop: for transform in sampler: text = transform(text)
LoopStep ==
    /\ Advance
    /\ text' \in CallTransform(choices[pos + 1].fun, text, choices[pos + 1].p)

\* the caller empties the list it passed in: transforms.clear()
CallerMutatesList ==
    /\ pc = "live"
    /\ callerList # <<>>
    /\ callerList' = <<>>
    /\ UNCHANGED <<pc, _transforms, _n, _p, _shuffle, choices, pos,
                   nGiven, mGiven, lastCall, inp, text>>
    /\ UNCHANGED <<subVars, extVars>>

\* the sampler's life: construction, reassignments, iterations
Next ==
    \/ \E transforms \in Pools, m \in Magnitudes, n \in NValues, shuffle \in BOOLEAN :
          Construct(transforms, m, n, shuffle)
    \/ \E value \in NValues : SetN(value)
    \/ \E value \in Magnitudes : SetM(value)
    \/ Iter(<<>>)
    \/ IterNext
    \/ CallerMutatesList

Spec == Init /\ [][Next]_vars

\* the sampler driving a consumer that applies each yielded transform to its string
NextPipeline ==
    \/ \E transforms \in Pools, m \in PipelineMagnitudes, n \in NValues, shuffle \in BOOLEAN :
          Construct(transforms, m, n, shuffle)
    \/ \E value \in NValues : SetN(value)
    \/ \E value \in PipelineMagnitudes : SetM(value)
    \/ \E start \in Inputs : Iter(start)
    \/ LoopStep

SpecPipeline == Init /\ [][NextPipeline]_vars

-----------------------------------------------------------------------------
(* _sub_chars(string, probability, mapping), one loop pass at a time.       *)

\* the strings of test_add_contractions and test_add_expansionss, as character sequences
IS_NOT == <<"i", "s", " ", "n", "o", "t">>
IS_NOT_CAP == <<"I", "s", " ", "n", "o", "t">>
ISNT == <<"i", "s", "n", "'", "t">>
ALICE_ == <<"a", "l", "i", "c", "e", " ">>
_DEAD == <<" ", "d", "e", "a", "d">>

\* the characters of the strings given to _sub_chars
Alphabet == {"a", "b", "A", "U0130"}

\* a longer string given to _sub_chars: U+0130 with three occurrences of a
\* pattern after it, the shortest in which a cursor kept one position short
\* is still inside the string after a replacement
U0130_AAA == <<"U0130", "a", "a", "a">>

\* the mappings given to _sub_chars, as item sequences: scaled-down versions
\* of LEETMAP (overlapping patterns, longest first), of the removal mappings
\* of remove_whitespace and remove_punctuation, of CONTRACT and EXPAND (each
\* the other with keys and values exchanged), and mappings whose replacement
\* contains the pattern, whose replacement is a later pattern, whose pattern
\* is matched by the lower case of U+0130, whose pattern is empty, and the
\* empty mapping
LeetLike == << <<(<<"a", "b">>), <<"b">> >>, << <<"a">>, <<"A">> >> >>
RemoveA == << <<(<<"a">>), <<>> >> >>
ContractLike == << <<(<<"b", "a">>), <<"a">> >> >>
ExpandLike == << <<(<<"a">>), <<"b", "a">> >> >>
Doubling == << <<(<<"a">>), <<"a", "a">> >> >>
Chained == << <<(<<"a">>), <<"b">> >>, << <<"b">>, <<"a">> >> >>
DotlessI == << <<(<<"i">>), <<"b">> >> >>
EmptyPattern == << <<(<<>>), <<"b">> >> >>
Mappings == {LeetLike, RemoveA, ContractLike, ExpandLike, Doubling, Chained, DotlessI,
             EmptyPattern, <<>>}

\* the one item of CONTRACT (data/contractions.json) that the tests show, and
\* EXPAND = {v: k for k, v in CONTRACT.items()} of it
CONTRACT == << <<IS_NOT, ISNT>> >>
EXPAND == [e \in 1..Len(CONTRACT) |-> <<CONTRACT[e][2], CONTRACT[e][1]>>]

\* the pieces the strings given to add_contractions are made of: the mapped
\* phrase as the mapping spells it and capitalised, its contraction, the
\* words around it in test_add_contractions, and U+0130
Pieces == {IS_NOT, IS_NOT_CAP, ISNT, ALICE_, _DEAD, <<"U0130">>}

\* the concatenations of at most n pieces
RECURSIVE PhrasesUpTo(_)
PhrasesUpTo(n) ==
    IF n = 0 THEN {<<>>}
    ELSE LET shorter == PhrasesUpTo(n - 1)
         IN  shorter \cup {s \o piece : s \in shorter, piece \in Pieces}

\* the probabilities given: 0.0, 0.5 and 1.0
Probabilities == {0, 50, 100}

\* the scan is followed while the string is at most this long and the scan has
\* drawn at most this often (only an empty pattern takes it further)
MaxString == 2 * Len(original) + 1

\* the locals of a call of _sub_chars on the string str, before the first item's scan
SubCharsEntered(str) ==
    /\ string = str
    /\ original = str
    /\ entry = 1
    /\ index = 0
    /\ spc = "scan"
    /\ fn = "_sub_chars"
    /\ draws = 0
    /\ scanned = str
    /\ origin = [i \in 1..Len(str) |-> 0]
    /\ words = <<>>
    /\ perm = <<>>

\* _sub_chars is called (by add_contractions when the mapping is CONTRACT):
\* the first item's scan is about to start
SubInit ==
    /\ SamplerIdle
    /\ ExtIdle
    /\ \/ /\ original \in StringsUpTo(Alphabet, MaxLen) \cup {U0130_AAA}
          /\ mapping \in Mappings
       \/ /\ original \in PhrasesUpTo(MaxPhrases)
          /\ mapping = CONTRACT
    /\ probability \in Probabilities
    /\ earlier = <<>>
    /\ SubCharsEntered(original)

Scanning == fn = "_sub_chars" /\ spc = "scan" /\ entry <= Len(mapping)
InWhile == 0 <= index /\ index < Len(string)
Pattern == mapping[entry][1]
Sub == mapping[entry][2]

\* a pass of the while loop in which find succeeds: a draw, then replace or skip
SubCharsFound ==
    /\ Scanning
    /\ InWhile
    /\ Len(string) <= MaxString
    /\ draws <= MaxString
    /\ LET i == Find(Lower(string), Pattern, index)
       IN  /\ i >= 0
           /\ \E d \in Binomial1(probability) :
                 LET st == SubCharsReplaceOrSkip(string, i, Pattern, Sub, d)
                     written == [k \in 1..Len(Sub) |-> entry]
                 IN  /\ string' = st.string
                     /\ index' = st.index
                     /\ origin' = SubCharsReplaceOrSkip(origin, i, Pattern, written, d).string
    /\ draws' = draws + 1
    /\ UNCHANGED <<entry, mapping, probability, original, spc, scanned, listVars>>
    /\ UNCHANGED <<samplerVars, extVars>>

\* a for loop whose cursor is set once, before the loop: the next item's scan
\* goes on from where the earlier scan stopped
SubCharsNextItemKeepsCursor ==
    /\ entry' = entry + 1
    /\ index' = index
    /\ draws' = 0
    /\ scanned' = string
    /\ UNCHANGED <<string, mapping, probability, original, spc, origin, listVars>>
    /\ UNCHANGED <<samplerVars, extVars>>

\* the for loop moves on to the next item: index = 0 again
SubCharsNextItem ==
    /\ entry' = entry + 1
    /\ index' = 0
    /\ draws' = 0
    /\ scanned' = string
    /\ UNCHANGED <<string, mapping, probability, original, spc, origin, listVars>>
    /\ UNCHANGED <<samplerVars, extVars>>

\* a pass of the while loop in which find returns -1: break, on to the next item
SubCharsNotFound ==
    /\ Scanning
    /\ InWhile
    /\ Find(Lower(string), Pattern, index) < 0
    /\ SubCharsNextItem

\* the while condition fails: on to the next item
SubCharsExhausted ==
    /\ Scanning
    /\ ~InWhile
    /\ SubCharsNextItem

\* the for loop is over: return string
SubCharsReturn ==
    /\ fn = "_sub_chars"
    /\ spc = "scan"
    /\ entry > Len(mapping)
    /\ spc' = "done"
    /\ UNCHANGED <<string, index, entry, mapping, probability, original, scanVars, listVars>>
    /\ UNCHANGED <<samplerVars, extVars>>

\* remove_contractions(add_contractions(s, p), p): the string add_contractions
\* returned is given to remove_contractions, which calls _sub_chars with EXPAND
RemoveContractions ==
    /\ fn = "_sub_chars"
    /\ spc = "done"
    /\ mapping = CONTRACT
    /\ earlier = <<>>
    /\ earlier' = <<original>>
    /\ mapping' = EXPAND
    /\ string' = string
    /\ original' = string
    /\ entry' = 1
    /\ index' = 0
    /\ spc' = "scan"
    /\ draws' = 0
    /\ scanned' = string
    /\ origin' = [i \in 1..Len(string) |-> 0]
    /\ UNCHANGED <<probability, fn, words, perm>>
    /\ UNCHANGED <<samplerVars, extVars>>

NextSubChars ==
    \/ SubCharsFound
    \/ SubCharsNotFound
    \/ SubCharsExhausted
    \/ SubCharsReturn
    \/ RemoveContractions

SpecSubChars == SubInit /\ [][NextSubChars]_vars

-----------------------------------------------------------------------------
(* _sub_words(string, probability, mapping) of niacin/text/en/word.py, one  *)
(* pass of the inner for loop at a time, and remove_articles built on it.   *)

\* the characters str.split() splits on, among those of the model's strings
Whitespace == {" ", "TAB"}

\* str.split() of the characters s[i:], cur being the token collected so far
RECURSIVE SplitFrom(_, _, _)
SplitFrom(s, i, cur) ==
    IF i > Len(s) THEN (IF cur = <<>> THEN <<>> ELSE <<cur>>)
    ELSE IF s[i] \in Whitespace
         THEN (IF cur = <<>> THEN <<>> ELSE <<cur>>) \o SplitFrom(s, i + 1, <<>>)
         ELSE SplitFrom(s, i + 1, Append(cur, s[i]))

\* string.split()
Split(s) == SplitFrom(s, 1, <<>>)

\* sep.join(list)
RECURSIVE Join(_, _)
Join(list, sep) ==
    IF list = <<>> THEN <<>>
    ELSE IF Len(list) = 1 THEN list[1]
    ELSE list[1] \o sep \o Join(Tail(list), sep)

NonEmpty(word) == word # <<>>

\* " ".join(word for word in words if word)
JoinNonEmpty(list) == Join(SelectSeq(list, NonEmpty), <<" ">>)

\* a test that takes the pattern anywhere inside the word
WordMatchesPartial(word, pattern) == Find(Lower(word), pattern, 0) >= 0

\* a test that compares the word as it is spelled
WordMatchesCaseSensitive(word, pattern) == word = pattern

\* word.lower() == pattern
WordMatches(word, pattern) == Lower(word) = pattern

\* an assignment whose test is inverted: it replaces when the draw fails
SubWordsReplaceOrKeepInverted(word, sub, d) == IF d = 0 THEN sub ELSE word

\* the new value of words[index] after a match and the Bernoulli draw d
SubWordsReplaceOrKeep(word, sub, d) == IF d = 1 THEN sub ELSE word

ARTICLES == <<<<"t", "h", "e">>,
             <<"a">>,
             <<"a", "n">>,
             <<"t", "h", "e", "s", "e">>,
             <<"t", "h", "o", "s", "e">>,
             <<"h", "i", "s">>,
             <<"h", "e", "r", "s">>,
             <<"t", "h", "e", "i", "r">>>>

\* remove_articles: mapping = {article: "" for article in ARTICLES}
ArticlesMapping == [e \in 1..Len(ARTICLES) |-> <<ARTICLES[e], <<>> >>]

\* a mapping whose replacements are words, the first one a later pattern
AnForA == << <<(<<"a">>), <<"a", "n">> >>, << <<"a", "n">>, <<"n">> >> >>

WordMappings == {ArticlesMapping, AnForA, <<>>}

\* the strings given to _sub_words: the sentence of test_remove_articles and
\* the short strings over an article, its capital, another letter and whitespace
THE_MAN_HAS_A_BROWN_DOG == <<"T", "h", "e", " ", "m", "a", "n", " ", "h", "a", "s", " ", "a", " ", "b", "r", "o", "w", "n", " ", "d", "o", "g">>
MAN_HAS_BROWN_DOG_WITH_A == <<"m", "a", "n", " ", "h", "a", "s", " ", "a", " ", "b", "r", "o", "w", "n", " ", "d", "o", "g">>
MAN_HAS_BROWN_DOG == <<"m", "a", "n", " ", "h", "a", "s", " ", "b", "r", "o", "w", "n", " ", "d", "o", "g">>
WordAlphabet == {"a", "A", "n", " ", "TAB"}
WordStrings == StringsUpTo(WordAlphabet, MaxLen) \cup {THE_MAN_HAS_A_BROWN_DOG}

\* the locals of a call of _sub_words on the string str, after words = string.split()
SubWordsEntered(str) ==
    /\ original = str
    /\ string = str
    /\ words = Split(str)
    /\ entry = 1
    /\ index = 0
    /\ spc = "scan"
    /\ fn = "_sub_words"
    /\ draws = 0
    /\ scanned = <<>>
    /\ origin = <<>>
    /\ perm = <<>>

\* _sub_words is called (by remove_articles when the mapping is ArticlesMapping)
SubWordsInit ==
    /\ SamplerIdle
    /\ ExtIdle
    /\ original \in WordStrings
    /\ mapping \in WordMappings
    /\ probability \in Probabilities
    /\ earlier = <<>>
    /\ SubWordsEntered(original)

InWords == fn = "_sub_words" /\ spc = "scan" /\ entry <= Len(mapping) /\ index < Len(words)

\* a pass of the inner for loop on a word whose lower case is the pattern:
\* a draw, then words[index] = sub or not
SubWordsMatch ==
    /\ InWords
    /\ WordMatches(words[index + 1], Pattern)
    /\ \E d \in Binomial1(probability) :
          words' = [words EXCEPT ![index + 1] = SubWordsReplaceOrKeep(@, Sub, d)]
    /\ index' = index + 1
    /\ draws' = draws + 1
    /\ UNCHANGED <<string, entry, mapping, probability, original, spc, scanned, origin,
                   fn, perm, earlier>>
    /\ UNCHANGED <<samplerVars, extVars>>

\* a pass of the inner for loop on any other word: no draw (and short-circuits)
SubWordsNoMatch ==
    /\ InWords
    /\ ~WordMatches(words[index + 1], Pattern)
    /\ index' = index + 1
    /\ UNCHANGED <<string, entry, mapping, probability, original, spc, scanVars, listVars>>
    /\ UNCHANGED <<samplerVars, extVars>>

\* enumerate(words) is exhausted: the outer for loop moves on to the next item
SubWordsNextItem ==
    /\ fn = "_sub_words" /\ spc = "scan" /\ entry <= Len(mapping)
    /\ index >= Len(words)
    /\ entry' = entry + 1
    /\ index' = 0
    /\ UNCHANGED <<string, mapping, probability, original, spc, scanVars, listVars>>
    /\ UNCHANGED <<samplerVars, extVars>>

\* the outer for loop is over: return " ".join(word for word in words if word)
SubWordsReturn ==
    /\ fn = "_sub_words" /\ spc = "scan"
    /\ entry > Len(mapping)
    /\ string' = JoinNonEmpty(words)
    /\ spc' = "done"
    /\ UNCHANGED <<index, entry, mapping, probability, original, scanVars, listVars>>
    /\ UNCHANGED <<samplerVars, extVars>>

\* remove_articles(remove_articles(s, p), p): the string returned is given to
\* remove_articles again
RemoveArticlesAgain ==
    /\ fn = "_sub_words" /\ spc = "done"
    /\ mapping = ArticlesMapping
    /\ earlier = <<>>
    /\ earlier' = <<original>>
    /\ original' = string
    /\ words' = Split(string)
    /\ entry' = 1
    /\ index' = 0
    /\ spc' = "scan"
    /\ draws' = 0
    /\ UNCHANGED <<string, mapping, probability, scanned, origin, fn, perm>>
    /\ UNCHANGED <<samplerVars, extVars>>

NextSubWords ==
    \/ SubWordsMatch
    \/ SubWordsNoMatch
    \/ SubWordsNextItem
    \/ SubWordsReturn
    \/ RemoveArticlesAgain

SpecSubWords == SubWordsInit /\ [][NextSubWords]_vars

-----------------------------------------------------------------------------
(* swap_chars of niacin/text/en/char.py and swap_words of                   *)
(* niacin/text/en/word.py, one pass of the while loop at a time.            *)

\* list(string): the characters, each a string of length 1
ListOf(s) == [k \in 1..Len(s) |-> <<s[k]>>]

\* the list the while loop works on: chars = list(string) in swap_chars,
\* words = string.split() in swap_words
SwapElements(f, s) == IF f = "swap_chars" THEN ListOf(s) ELSE Split(s)

\* the string returned: "".join(chars) in swap_chars, " ".join(words) in swap_words
SwapJoined(f, list) == IF f = "swap_chars" THEN Join(list, <<>>) ELSE Join(list, <<" ">>)

\* a loop body that moves the cursor by 1 after a swap too
SwapStepOverlapping(list, i, d) ==
    IF d = 1
    THEN [list |-> [list EXCEPT ![i + 1] = list[i + 2], ![i + 2] = list[i + 1]],
          index |-> i + 1]
    ELSE [list |-> list, index |-> i + 1]

\* a loop body that assigns the two elements one after the other: both
\* positions end up with the right-hand element
SwapStepCopying(list, i, d) ==
    IF d = 1
    THEN [list |-> [list EXCEPT ![i + 1] = list[i + 2]], index |-> i + 2]
    ELSE [list |-> list, index |-> i + 1]

\* one pass of the while loop at (0-based) index i with the Bernoulli draw d:
\* the new values of the list and of index
SwapStep(list, i, d) ==
    IF d = 1
    THEN [list |-> [list EXCEPT ![i + 1] = list[i + 2], ![i + 2] = list[i + 1]],
          index |-> i + 2]
    ELSE [list |-> list, index |-> i + 1]

\* the strings given to swap_chars and swap_words: the short strings over two
\* letters and a space, and the string of test_swap_chars (to swap_chars) and
\* the sentence of the word tests (to swap_words)
THE_MAN == <<"T", "h", "e", " ", "m", "a", "n">>
HT_EAMN == <<"h", "T", " ", "e", "a", "m", "n">>
MAN_THE_A_HAS_DOG_BROWN == <<"m", "a", "n", " ", "T", "h", "e", " ", "a", " ", "h", "a", "s", " ", "d", "o", "g", " ", "b", "r", "o", "w", "n">>
SwapAlphabet == {"a", "b", " "}
SwapStrings(f) ==
    StringsUpTo(SwapAlphabet, MaxLen)
        \cup (IF f = "swap_chars" THEN {THE_MAN} ELSE {THE_MAN_HAS_A_BROWN_DOG})

\* swap_chars or swap_words is called: the while loop is about to start
SwapInit ==
    /\ SamplerIdle
    /\ ExtIdle
    /\ fn \in {"swap_chars", "swap_words"}
    /\ original \in SwapStrings(fn)
    /\ probability \in Probabilities
    /\ string = original
    /\ words = SwapElements(fn, original)
    /\ perm = [k \in 1..Len(words) |-> k - 1]
    /\ index = 0
    /\ draws = 0
    /\ spc = "scan"
    /\ entry = 0
    /\ mapping = <<>>
    /\ scanned = <<>>
    /\ origin = <<>>
    /\ earlier = <<>>

Swapping == fn \in {"swap_chars", "swap_words"} /\ spc = "scan"

\* a pass of the while loop: a draw, then swap and index += 2, or index += 1
SwapDraw ==
    /\ Swapping
    /\ index < Len(words) - 1
    /\ \E d \in Binomial1(probability) :
          /\ words' = SwapStep(words, index, d).list
          /\ perm' = SwapStep(perm, index, d).list
          /\ index' = SwapStep(words, index, d).index
    /\ draws' = draws + 1
    /\ UNCHANGED <<string, entry, mapping, probability, original, spc, scanned, origin,
                   fn, earlier>>
    /\ UNCHANGED <<samplerVars, extVars>>

\* the while condition fails: return the joined list
SwapReturn ==
    /\ Swapping
    /\ ~(index < Len(words) - 1)
    /\ string' = SwapJoined(fn, words)
    /\ spc' = "done"
    /\ UNCHANGED <<index, entry, mapping, probability, original, scanVars, listVars>>
    /\ UNCHANGED <<samplerVars, extVars>>

NextSwap ==
    \/ SwapDraw
    \/ SwapReturn

SpecSwap == SwapInit /\ [][NextSwap]_vars

-----------------------------------------------------------------------------
(* The right-to-left scans of char.py: add_characters, remove_characters,  *)
(* add_macbook_keyboard and add_whitespace, one loop pass at a time.        *)

DOG == <<"d", "o", "g">>

\* the functions whose for loop runs over the indexes from right to left
ScanFunctions == {"add_characters", "remove_characters", "add_macbook_keyboard",
                  "add_whitespace"}

\* the strings given to the scans: those of test_add_whitespace ("", "dog"),
\* "bob" of test_add_characters, and the other short strings over "o", "b"
ScanStrings == StringsUpTo({"o", "b"}, MaxLen) \cup {DOG}

\* two of the letters random.choice(list(ascii_letters)) can return
AsciiLetters == {"x", "Y"}

\* every loop starting at len(string) - 1
ScanFirstShort(f, str) == Len(str) - 1

\* the first index of the loop: reversed(range(len(string))) starts at
\* len(string) - 1, range(len(string), -1, -1) at len(string)
ScanFirst(f, str) == IF f = "add_whitespace" THEN Len(str) ELSE Len(str) - 1

\* what a successful draw can choose: add_characters the new character,
\* add_macbook_keyboard the count; add_whitespace writes space = " "
NewChars(f) == IF f = "add_characters" THEN AsciiLetters ELSE {" "}
Counts(f) == IF f = "add_macbook_keyboard" THEN {0, 2} ELSE {1}

\* seq[i] * count
Times(x, count) == [k \in 1..count |-> x]

\* the edit made at index 0 whatever the loop index
ScanEditAtFront(f, seq, i, new, count) ==
    CASE f \in {"add_characters", "add_whitespace"} -> <<new>> \o seq
      [] f = "remove_characters" -> Tail(seq)
      [] OTHER -> Times(seq[1], count) \o Tail(seq)

\* the slice assignment of a successful draw at index i, on any sequence:
\*   add_characters, add_whitespace: seq[:i] + new + seq[i:]
\*   remove_characters:              seq[:i] + seq[i + 1:]
\*   add_macbook_keyboard:           seq[:i] + seq[i] * count + seq[i + 1:]
ScanEdit(f, seq, i, new, count) ==
    CASE f \in {"add_characters", "add_whitespace"} ->
             Slice(seq, 0, i) \o <<new>> \o SliceFrom(seq, i)
      [] f = "remove_characters" -> Slice(seq, 0, i) \o SliceFrom(seq, i + 1)
      [] OTHER -> Slice(seq, 0, i) \o Times(seq[i + 1], count) \o SliceFrom(seq, i + 1)

\* one of the scans is called: its loop is about to visit its first index
ScanInit ==
    /\ SamplerIdle
    /\ ExtIdle
    /\ fn \in ScanFunctions
    /\ original \in ScanStrings
    /\ probability \in Probabilities
    /\ string = original
    /\ index = ScanFirst(fn, original)
    /\ perm = [k \in 1..Len(original) |-> k - 1]
    /\ spc = "scan"
    /\ draws = 0
    /\ entry = 0
    /\ mapping = <<>>
    /\ scanned = <<>>
    /\ origin = <<>>
    /\ words = <<>>
    /\ earlier = <<>>

InScan == fn \in ScanFunctions /\ spc = "scan"

\* one pass of the for loop: a draw at the index, then the edit, or nothing
ScanPass ==
    /\ InScan
    /\ index >= 0
    /\ \E d \in Binomial1(probability) :
          /\ successes' = successes + d
          /\ IF d = 1
             THEN \E new \in NewChars(fn), count \in Counts(fn) :
                     /\ string' = ScanEdit(fn, string, index, new, count)
                     /\ perm' = ScanEdit(fn, perm, index, -1, count)
             ELSE UNCHANGED <<string, perm>>
    /\ index' = index - 1
    /\ draws' = draws + 1
    /\ UNCHANGED <<entry, mapping, probability, original, spc, scanned, origin,
                   fn, words, earlier>>
    /\ UNCHANGED <<samplerVars, freqVars, translatorVars, instanceVars, datasetVars>>

\* the range is exhausted: return string
ScanReturn ==
    /\ InScan
    /\ index < 0
    /\ spc' = "done"
    /\ UNCHANGED <<string, index, entry, mapping, probability, original, scanVars, listVars>>
    /\ UNCHANGED <<samplerVars, extVars>>

NextScan ==
    \/ ScanPass
    \/ ScanReturn

SpecScan == ScanInit /\ [][NextScan]_vars

-----------------------------------------------------------------------------
(* The frequency-domain transforms of niacin/timeseries/freq.py.  The       *)
(* values of the samples are left out: an entry of fx is the frequency      *)
(* component it holds and what the transform did to its value.              *)

FreqFunctions == {"add_discrete_phase_shifts", "add_random_frequency_noise",
                  "add_high_frequency_noise", "remove_random_frequency"}

\* the magnitudes given: 0.0, 0.25, 0.5 and 1.0 (doubles whose products with
\* an integer are exact)
FreqMagnitudes == {0, 25, 50, 100}

\* scipy.fft.rfft raises ValueError on an empty array
RfftRaises(n) == n < 1

\* len(scipy.fft.rfft(x)) for len(x) = n >= 1
RfftLen(n) == n \div 2 + 1

\* scipy.fft.irfft(fx) raises ValueError when its default output length is 0
IrfftRaises(l) == 2 * (l - 1) < 1

\* len(scipy.fft.irfft(fx)) for len(fx) = l: the default output length
\* 2 * (l - 1) (no n is passed to irfft)
IrfftLen(l) == 2 * (l - 1)

\* round(l * m) for m given in hundredths: Python rounds halves to even
Round(l, m) ==
    LET q == (l * m) \div 100
        r == (l * m) % 100
    IN  IF 2 * r < 100 THEN q
        ELSE IF 2 * r > 100 THEN q + 1
        ELSE IF q % 2 = 0 THEN q ELSE q + 1

\* rfft(x), before the transform touches it
Rfft(n) == [k \in 1..RfftLen(n) |-> [c |-> k - 1, amp |-> "kept"]]

\* random.binomial(1, p, l): the arrays the draw can return
BinomialArray(p, l) == [1..l -> Binomial1(p)]

\* random.binomial(1, 0.5, l) * 2 - 1
SignArrays(l) == [1..l -> {-1, 1}]

\* j = min(max(i + signs[i] * step, 0), len(fx)-1)
Partner(i, sign, stp, l) == Min(Max(i + sign * stp, 0), l - 1)

\* the transform named f is called on an array of n samples: rfft, the draws,
\* and for all but add_discrete_phase_shifts the whole edit of fx
FreqCall(f, n, p, m) ==
    /\ spc = "idle"
    /\ fn = "none"
    /\ fn' = f
    /\ xlen' = n
    /\ probability' = p
    /\ mag' = m
    /\ IF RfftRaises(n)
       THEN /\ spc' = "done"
            /\ res' = [raised |-> TRUE, len |-> 0]
            /\ UNCHANGED <<fx, ps, signs, step, swaps, index>>
       ELSE LET l == RfftLen(n)
            IN  /\ res' = res
                /\ swaps' = [k \in 1..l |-> 0]
                /\ CASE f = "add_discrete_phase_shifts" ->
                            /\ fx' = Rfft(n)
                            /\ step' = Round(l, m)
                            /\ ps' \in BinomialArray(p, l)
                            /\ signs' \in SignArrays(l)
                            /\ index' = 1
                            /\ spc' = "scan"
                     [] f = "add_random_frequency_noise" ->
                            /\ ps' \in BinomialArray(p, l)
                            /\ fx' = [k \in 1..l |->
                                        IF k > 1 /\ ps'[k] = 1
                                        THEN [c |-> k - 1, amp |-> "noisy"]
                                        ELSE Rfft(n)[k]]
                            /\ spc' = "inverse"
                            /\ UNCHANGED <<signs, step, index>>
                     [] f = "add_high_frequency_noise" ->
                            /\ \E d \in Binomial1(p) :
                                  fx' = [k \in 1..l |->
                                           IF k = l /\ d = 1
                                           THEN [c |-> k - 1, amp |-> "noisy"]
                                           ELSE Rfft(n)[k]]
                            /\ spc' = "inverse"
                            /\ UNCHANGED <<ps, signs, step, index>>
                     [] f = "remove_random_frequency" ->
                            /\ ps' \in BinomialArray(100 - p, l)
                            /\ fx' = [k \in 1..l |->
                                        IF ps'[k] = 0
                                        THEN [c |-> k - 1, amp |-> "zero"]
                                        ELSE Rfft(n)[k]]
                            /\ spc' = "inverse"
                            /\ UNCHANGED <<signs, step, index>>
    /\ UNCHANGED <<string, entry, mapping, original, scanVars, words, perm, earlier>>
    /\ UNCHANGED <<samplerVars, successes, translatorVars, instanceVars, datasetVars>>

\* one pass of the for loop of add_discrete_phase_shifts, at position index
PhasePass ==
    /\ fn = "add_discrete_phase_shifts"
    /\ spc = "scan"
    /\ index < Len(fx)
    /\ LET i == index
           j == Partner(i, signs[i + 1], step, Len(fx))
       IN  IF ps[i + 1] = 1 /\ ps[j + 1] = 1
           THEN /\ fx' = [fx EXCEPT ![i + 1] = fx[j + 1], ![j + 1] = fx[i + 1]]
                /\ ps' = [ps EXCEPT ![i + 1] = -1, ![j + 1] = -1]
                /\ swaps' = [k \in 1..Len(swaps) |->
                               IF k \in {i + 1, j + 1} THEN swaps[k] + 1 ELSE swaps[k]]
           ELSE UNCHANGED <<fx, ps, swaps>>
    /\ index' = index + 1
    /\ UNCHANGED <<xlen, mag, signs, step, res>>
    /\ UNCHANGED <<string, entry, mapping, probability, original, spc, scanVars, listVars>>
    /\ UNCHANGED <<samplerVars, successes, translatorVars, instanceVars, datasetVars>>

\* the for loop of add_discrete_phase_shifts is over
PhaseLoopEnds ==
    /\ fn = "add_discrete_phase_shifts"
    /\ spc = "scan"
    /\ index >= Len(fx)
    /\ spc' = "inverse"
    /\ UNCHANGED <<string, index, entry, mapping, probability, original, scanVars, listVars>>
    /\ UNCHANGED <<samplerVars, extVars>>

\* return irfft(fx)
FreqReturn ==
    /\ fn \in FreqFunctions
    /\ spc = "inverse"
    /\ spc' = "done"
    /\ res' = IF IrfftRaises(Len(fx))
              THEN [raised |-> TRUE, len |-> 0]
              ELSE [raised |-> FALSE, len |-> IrfftLen(Len(fx))]
    /\ UNCHANGED <<xlen, mag, fx, ps, signs, step, swaps>>
    /\ UNCHANGED <<string, index, entry, mapping, probability, original, scanVars, listVars>>
    /\ UNCHANGED <<samplerVars, successes, translatorVars, instanceVars, datasetVars>>

NextFreq ==
    \/ \E f \in FreqFunctions, n \in 0..MaxSamples, p \in Probabilities, m \in FreqMagnitudes :
          FreqCall(f, n, p, m)
    \/ PhasePass
    \/ PhaseLoopEnds
    \/ FreqReturn

SpecFreq == Init /\ [][NextFreq]_vars

-----------------------------------------------------------------------------
(* _Translator and add_backtranslation of niacin/text/en/sentence.py.       *)

ModelNames == {"en2de", "de2en"}

\* the strings given to add_backtranslation, and those the models return
Sentences == {<<>>, <<"a">>, <<"b">>}

\* a translator call and how it ended: raised is "" when it returned,
\* "ImportError" when import torch failed, and the name of the model whose
\* torch.hub.load raised otherwise; n is the number of calls made so far
TCall(op, force, raised) == [op |-> op, force |-> force, raised |-> raised, n |-> tcall.n + 1]

\* a test that loads whatever the table holds
NeedsLoadAlways(force, name, table) == TRUE

\* if force or name not in cls.translators
NeedsLoad(force, name, table) == force \/ name \notin table

\* one of the two guarded loads of load_models, from the state st of the
\* call: the states it can leave (torch.hub.load returns or raises)
LoadOne(st, force, name) ==
    IF st.raised # "" \/ ~NeedsLoad(force, name, st.table) THEN {st}
    ELSE {[st EXCEPT !.raised = name],
          [st EXCEPT !.table = st.table \cup {name},
                     !.loads = [st.loads EXCEPT ![name] = st.loads[name] + 1]]}

\* _Translator.load_models(force): the tables, load counts and outcomes the
\* call can end with (import torch, then en2de, then de2en, then eval)
load_models(force, table, counts) ==
    LET entered == [table |-> table, loads |-> counts, raised |-> ""]
    IN  {[entered EXCEPT !.raised = "ImportError"]}
        \cup UNION {LoadOne(st, force, "de2en") : st \in LoadOne(entered, force, "en2de")}

\* _Translator(): load_models(), then the two table lookups; the states the
\* construction can leave
Translator(table, counts) == load_models(FALSE, table, counts)

\* a draw made before the function looks at its string
BacktranslationDrawsFirst(str, p) == {<<d>> : d \in Binomial1(p)}

\* the draws add_backtranslation makes: none for an empty string, which it
\* returns at once, and otherwise one
BacktranslationDraws(str, p) ==
    IF str = <<>> THEN {<<>>} ELSE {<<d>> : d \in Binomial1(p)}

\* _Translator.load_models(force=...) is called on the class
LoadModelsCall(force) ==
    /\ tcall.n < MaxCalls
    /\ \E st \in load_models(force, translators, loads) :
          /\ translators' = st.table
          /\ loads' = st.loads
          /\ tcall' = TCall("load_models", force, st.raised)
    /\ forces' = IF force THEN forces + 1 ELSE forces
    /\ UNCHANGED made
    /\ UNCHANGED <<samplerVars, subVars, successes, freqVars, instanceVars, datasetVars>>

\* _Translator() is called
TranslatorInit ==
    /\ tcall.n < MaxCalls
    /\ \E st \in Translator(translators, loads) :
          /\ translators' = st.table
          /\ loads' = st.loads
          /\ tcall' = TCall("__init__", FALSE, st.raised)
          /\ made' = IF st.raised = "" THEN made + 1 ELSE made
    /\ UNCHANGED forces
    /\ UNCHANGED <<samplerVars, subVars, successes, freqVars, instanceVars, datasetVars>>

\* add_backtranslation(str, p) is called
AddBacktranslation(str, p) ==
    /\ tcall.n < MaxCalls
    /\ fn' = "add_backtranslation"
    /\ spc' = "done"
    /\ original' = str
    /\ probability' = p
    /\ \E ds \in BacktranslationDraws(str, p) :
          /\ draws' = draws + Len(ds)
          /\ IF ds # <<>> /\ ds[1] = 1
             THEN \E st \in Translator(translators, loads) :
                     /\ translators' = st.table
                     /\ loads' = st.loads
                     /\ tcall' = TCall("add_backtranslation", FALSE, st.raised)
                     /\ IF st.raised = ""
                        THEN /\ made' = made + 1
                             /\ string' \in Sentences
                        ELSE UNCHANGED <<made, string>>
             ELSE /\ string' = str
                  /\ tcall' = TCall("add_backtranslation", FALSE, "")
                  /\ UNCHANGED <<translators, loads, made>>
    /\ UNCHANGED forces
    /\ UNCHANGED <<index, entry, mapping, scanned, origin, words, perm, earlier>>
    /\ UNCHANGED <<samplerVars, successes, freqVars, instanceVars, datasetVars>>

NextTranslator ==
    \/ \E force \in BOOLEAN : LoadModelsCall(force)
    \/ TranslatorInit
    \/ \E str \in Sentences, p \in Probabilities : AddBacktranslation(str, p)

SpecTranslator == Init /\ [][NextTranslator]_vars

-----------------------------------------------------------------------------
(* Two RandAugment objects in one process, each with its own generator     *)
(* (self._rng = default_rng(seed=seed)).  A generator's state is its seed   *)
(* and the choice calls made on it so far; what choice returns is a         *)
(* function of that state and of the call's arguments, fixed the first time *)
(* a generator in that state is given those arguments.                      *)

Instances == {1, 2}

\* the seeds given to the constructor
Seeds == {1, 2}

\* the pool given to both constructors and the values given for n: one that
\* is negative, the legal ones that select something, one that is too large
\* (both are given m=29 and shuffle=True)
InstancePool == PoolOfSize(2)
InstanceNValues == {0 - 1, 1, 2, 3}

\* default_rng(seed=seed): a new generator, nothing drawn from it yet
default_rng(seed) == [seed |-> seed, used |-> <<>>]

\* the attributes __init__ stores
Sampler(transforms, m, n, shuffle, seed) ==
    [live |-> TRUE, _transforms |-> transforms, _n |-> n, _p |-> m_setter(m),
     _shuffle |-> shuffle, _rng |-> default_rng(seed)]

\* one generator that every sampler draws from
GeneratorOwnerShared(s) == 1

\* the object whose _rng the iteration of sampler s draws from: self
GeneratorOwner(s) == s

\* what is recorded of a choice call: its arguments and the indexes selected
Selection(inst, idx) ==
    [args |-> <<Len(inst._transforms), inst._n, inst._shuffle>>, idx |-> idx]

\* the indexes a generator in state g returns for the arguments args: the
\* ones it returned before in that state for these arguments, and any
\* outcome of the draws when it was never there
GeneratorChoice(g, args) ==
    LET known == {e \in oracle : e.rng = g /\ e.args = args}
    IN  IF known # {} THEN {e.idx : e \in known}
        ELSE RngChoice(args[1], args[2], args[3])

\* RandAugment(transforms, m, n, shuffle, seed) is bound to name s
NewSampler(s, transforms, m, n, shuffle, seed) ==
    /\ ~samplers[s].live
    /\ last[s].op = "none"
    /\ IF n_setter_raises(n, Len(transforms))
       THEN /\ last' = [last EXCEPT ![s] = Call("init", TRUE)]
            /\ UNCHANGED samplers
       ELSE /\ last' = [last EXCEPT ![s] = Call("init", FALSE)]
            /\ samplers' = [samplers EXCEPT ![s] = Sampler(transforms, m, n, shuffle, seed)]
    /\ UNCHANGED <<yielded, oracle>>
    /\ UNCHANGED <<samplerVars, subVars, successes, freqVars, translatorVars, datasetVars>>

\* s.n = value
AssignN(s, value) ==
    /\ samplers[s].live
    /\ IF n_setter_raises(value, Len(samplers[s]._transforms))
       THEN /\ last' = [last EXCEPT ![s] = Call("n_set", TRUE)]
            /\ UNCHANGED samplers
       ELSE /\ last' = [last EXCEPT ![s] = Call("n_set", FALSE)]
            /\ samplers' = [samplers EXCEPT ![s]._n = value]
    /\ UNCHANGED <<yielded, oracle>>
    /\ UNCHANGED <<samplerVars, subVars, successes, freqVars, translatorVars, datasetVars>>

\* iter(s): a choice call on the generator of s
Iterate(s) ==
    /\ samplers[s].live
    /\ Len(yielded[1]) + Len(yielded[2]) < MaxIterations
    /\ LET inst == samplers[s]
           owner == GeneratorOwner(s)
           g == samplers[owner]._rng
           args == Selection(inst, <<>>).args
       IN  IF ChoiceRaises(args[1], args[2])
           THEN /\ last' = [last EXCEPT ![s] = Call("iter", TRUE)]
                /\ UNCHANGED <<samplers, yielded, oracle>>
           ELSE /\ \E idx \in GeneratorChoice(g, args) :
                      /\ yielded' = [yielded EXCEPT ![s] = Append(@, Selection(inst, idx))]
                      /\ oracle' = oracle \cup {[rng |-> g, args |-> args, idx |-> idx]}
                /\ samplers' = [samplers EXCEPT ![owner]._rng.used = Append(@, args)]
                /\ last' = [last EXCEPT ![s] = Call("iter", FALSE)]
    /\ UNCHANGED <<samplerVars, subVars, successes, freqVars, translatorVars, datasetVars>>

NextInstances ==
    \/ \E s \in Instances, n \in InstanceNValues, seed \in Seeds :
          NewSampler(s, InstancePool, 29, n, TRUE, seed)
    \/ \E s \in Instances, value \in InstanceNValues : AssignN(s, value)
    \/ \E s \in Instances : Iterate(s)

SpecInstances == Init /\ [][NextInstances]_vars

-----------------------------------------------------------------------------
(* MemoryTextDataset of niacin/text/compat/pytorch.py, with a list of       *)
(* transforms or the RandAugment sampler as its transforms object.  The     *)
(* tokenizer given is str.split; a token's place in the vocabulary is the   *)
(* token itself, "<unk>" when the vocabulary built from the data lacks it.  *)

\* the texts and labels given to the dataset
DatasetTexts == <<SampleText(MaxText), SampleText(0)>>
DatasetLabels == <<1, 0>>

\* partial(fun, p=p) in a list of transforms
Bound(fun, p) == [idx |-> 0, fun |-> fun, p |-> p]

\* the lists of transforms given: none, one, and two in either order
TransformLists ==
    {<<>>,
     <<Bound("remove_whitespace", 100)>>,
     <<Bound("remove_whitespace", 100), Bound("add_whitespace", 100)>>,
     <<Bound("add_whitespace", 100), Bound("remove_whitespace", 100)>>}

\* the pool, the values of n and the magnitudes given to the sampler that is
\* given to the dataset
DatasetPool == PoolOfSize(2)
DatasetNValues == {0 - 1, 0, 1, 2}
DatasetMagnitudes == {0, 100}

\* self._tokenizer(text)
Tokenizer(str) == Split(str)

\* the tokens _build_vocab counted
Vocabulary == UNION {Range(Tokenizer(DatasetTexts[d])) : d \in 1..Len(DatasetTexts)}

\* self._vocab[token]
VocabIndex(token) == IF token \in Vocabulary THEN token ELSE <<"<unk>">>

\* torch.tensor([self._vocab[token] for token in tokens])
Vectorize(tokens) == [k \in 1..Len(tokens) |-> VocabIndex(tokens[k])]

\* MemoryTextDataset(data, labels, transforms=...): kind is "none" for
\* transforms=None, "list" for a list, "sampler" for the RandAugment object
NewDataset(kind, items) ==
    /\ ~dataset.made
    /\ kind = "sampler" => pc = "live"
    /\ dataset' = [made |-> TRUE, _data |-> DatasetTexts, _labels |-> DatasetLabels,
                   _transforms |-> IF kind = "none" THEN "list" ELSE kind,
                   items |-> IF kind = "list" THEN items ELSE <<>>]
    /\ UNCHANGED <<access, applied>>
    /\ UNCHANGED <<samplerVars, subVars, successes, freqVars, translatorVars, instanceVars>>

\* dataset[i] up to the head of the loop of _transform: the label and the
\* text are read and iter(self._transforms) is called, which for the sampler
\* is __iter__ (a new choice, or ValueError)
GetItem(i) ==
    /\ dataset.made
    /\ access.at \in {"idle", "returned", "raised"}
    /\ access.index < MaxAccesses
    /\ inp' = dataset._data[i]
    /\ text' = dataset._data[i]
    /\ pos' = 0
    /\ applied' = <<>>
    /\ LET began == [NoAccess EXCEPT !.index = access.index + 1,
                                     !.label = dataset._labels[i], !.n = _n]
       IN  IF dataset._transforms = "list"
           THEN /\ choices' = dataset.items
                /\ access' = [began EXCEPT !.at = "transform"]
                /\ UNCHANGED lastCall
           ELSE IF ChoiceRaises(Len(_transforms), _n)
                THEN /\ choices' = <<>>
                     /\ access' = [began EXCEPT !.at = "raised"]
                     /\ lastCall' = Call("iter", TRUE)
                ELSE /\ \E idx \in RngChoice(Len(_transforms), _n, _shuffle) :
                           choices' = [k \in 1.._n |-> Partial(idx[k], _p)]
                     /\ access' = [began EXCEPT !.at = "transform"]
                     /\ lastCall' = Call("iter", FALSE)
    /\ UNCHANGED <<pc, callerList, _transforms, _n, _p, _shuffle, nGiven, mGiven>>
    /\ UNCHANGED dataset
    /\ UNCHANGED <<subVars, successes, freqVars, translatorVars, instanceVars>>

\* one pass of the loop of _transform: text = transform(text)
TransformPass ==
    /\ access.at = "transform"
    /\ pos < Len(choices)
    /\ pos' = pos + 1
    /\ text' \in CallTransform(choices[pos + 1].fun, text, choices[pos + 1].p)
    /\ applied' = Append(applied, [fun |-> choices[pos + 1].fun, p |-> choices[pos + 1].p,
                                   arg |-> text, out |-> text'])
    /\ UNCHANGED <<pc, callerList, _transforms, _n, _p, _shuffle, choices,
                   nGiven, mGiven, lastCall, inp>>
    /\ UNCHANGED <<dataset, access>>
    /\ UNCHANGED <<subVars, successes, freqVars, translatorVars, instanceVars>>

\* _transform returns: tokens = self._tokenize(data)
Tokenize ==
    /\ access.at = "transform"
    /\ pos = Len(choices)
    /\ access' = [access EXCEPT !.at = "tokenized", !.tokens = Tokenizer(text)]
    /\ UNCHANGED <<dataset, applied>>
    /\ UNCHANGED <<samplerVars, subVars, successes, freqVars, translatorVars, instanceVars>>

\* vector = self._vectorize(tokens); return vector, label
VectorizeAndReturn ==
    /\ access.at = "tokenized"
    /\ access' = [access EXCEPT !.at = "returned", !.vector = Vectorize(access.tokens)]
    /\ UNCHANGED <<dataset, applied>>
    /\ UNCHANGED <<samplerVars, subVars, successes, freqVars, translatorVars, instanceVars>>

NextDataset ==
    \/ \E m \in DatasetMagnitudes, n \in DatasetNValues :
          Construct(DatasetPool, m, n, TRUE)
    \/ \E value \in DatasetNValues : SetN(value)
    \/ \E items \in TransformLists : NewDataset("list", items)
    \/ NewDataset("none", <<>>)
    \/ NewDataset("sampler", <<>>)
    \/ \E i \in 1..Len(DatasetTexts) : GetItem(i)
    \/ TransformPass
    \/ Tokenize
    \/ VectorizeAndReturn

SpecDataset == Init /\ [][NextDataset]_vars

-----------------------------------------------------------------------------
(* The sampler's claims.                                                   *)

\* clamp(m, 0, 100)
Clamp100(m) == IF m < 0 THEN 0 ELSE IF m > 100 THEN 100 ELSE m

\* the state right after a successful __iter__ call
JustIterated == pc = "live" /\ lastCall = Call("iter", FALSE)

\* C1: for every pool of size k and every n with 0 <= n <= k, an iteration
\* succeeds and yields exactly n functions, each wrapping the pool element at
\* the position it was selected from, and no pool position is selected twice.
C1_IterationYieldsNDistinct ==
    /\ (pc = "live" /\ lastCall.op = "iter" /\ 0 <= _n /\ _n <= Len(_transforms)) =>
           /\ ~lastCall.raised
           /\ Len(choices) = _n
    /\ pc = "live" =>
           /\ \A i \in 1..Len(choices) :
                 /\ choices[i].idx \in 0..(Len(_transforms) - 1)
                 /\ choices[i].fun = _transforms[choices[i].idx + 1]
           /\ \A i, j \in 1..Len(choices) : i # j => choices[i].idx # choices[j].idx

\* C1 witness: all of a 2-of-MaxPool sample has been taken by the consumer; its
\* second pick is the last pool position, which Floyd's loop takes when it
\* draws it or when it repeats its first draw
C1_Witness ==
    /\ JustIterated
    /\ Len(_transforms) = MaxPool
    /\ _n = 2
    /\ pos = 2
    /\ choices[2].idx = MaxPool - 1

\* C2: constructing a sampler with n > len(pool) (n = 1 over an empty pool
\* included), or assigning such an n later, raises at that call.
C2_LargeNRaises ==
    (lastCall.op \in {"init", "n_set"} /\ nGiven > Len(_transforms)) => lastCall.raised

\* C2 witness: a constructed sampler has just rejected an assignment n = len(pool) + 1
C2_Witness ==
    /\ pc = "live"
    /\ lastCall = Call("n_set", TRUE)
    /\ nGiven = Len(_transforms) + 1

\* C3: in every reachable state of a constructed sampler the stored n
\* satisfies 0 <= n <= len(pool).
C3_StoredNInRange == pc = "live" => (0 <= _n /\ _n <= Len(_transforms))

\* C4: once construction has succeeded, and after assignments to n and m that
\* did not raise, iterating the sampler never fails.
C4_IterationNeverFails == (pc = "live" /\ lastCall.op = "iter") => ~lastCall.raised

\* C5: for every integer m given at construction or assigned later, the m
\* getter returns clamp(m, 0, 100).
C5_GetterReturnsClampedM == pc = "live" => m_getter(_p) = Clamp100(mGiven)

\* C6, as a state predicate: every function of the latest iteration is a pool
\* function bound with a p in [0, 1]; right after __iter__ that p is
\* clamp(m / 100, 0, 1) for the m in force; and when the p bound is 0 the
\* composition of all yielded transforms has returned the consumer's string unchanged.
C6_BoundFunctions ==
    pc = "live" =>
        /\ \A i \in 1..Len(choices) :
              /\ 0 <= choices[i].p /\ choices[i].p <= 100
              /\ choices[i].fun = _transforms[choices[i].idx + 1]
        /\ JustIterated => \A i \in 1..Len(choices) : choices[i].p = Clamp100(mGiven)
        /\ (pos = Len(choices) /\ \A i \in 1..Len(choices) : choices[i].p = 0) => text = inp

\* C6: every function yielded by an iteration is a pool function pre-bound with
\* p = clamp(m/100, 0, 1) for the m in force when the iteration started, so
\* 0 <= p <= 1; no step other than a new __iter__ call (in particular no
\* reassignment of m or n while the iteration is consumed) changes the
\* functions of the iteration; with m = 0 the composition of the yielded
\* add_whitespace/remove_whitespace transforms returns its input unchanged.
C6_BoundAtIterationStart ==
    [][C6_BoundFunctions' /\ (choices' # choices => lastCall'.op = "iter")]_vars

\* C6 witness: m was 0 when the iteration started and was set to 100 while it
\* was consumed; both transforms of the pool ran and the string is the input
C6_Witness ==
    /\ pc = "live"
    /\ lastCall.op = "m_set"
    /\ _p = 100
    /\ Len(choices) = 2
    /\ pos = 2
    /\ \A i \in 1..2 : choices[i].p = 0
    /\ inp = SampleText(MaxText)
    /\ text = inp

\* C7: with shuffle=False the selected transforms are yielded in the same
\* relative order as they appear in the pool.
C7_PoolOrderWithoutShuffle ==
    (JustIterated /\ ~_shuffle) =>
        \A i, j \in 1..Len(choices) : i < j => choices[i].idx < choices[j].idx

\* C8: every iteration, whatever came before it, yields a fresh sample of
\* exactly the n in force when it starts (reassigned values of n take effect
\* from the next iteration).
C8_EveryIterationYieldsN ==
    (pc = "live" /\ lastCall.op = "iter") => (pos = 0 => Len(choices) = _n)

\* C9: len(sampler) is the number of functions in the pool given at
\* construction and no later step changes it: no assignment to n or m, no
\* iteration, no mutation of the list the caller passed in.
C9_LenFixedAtConstruction ==
    [][/\ (pc = "new" /\ pc' = "live") => len_sampler' = Len(callerList')
       /\ pc = "live" => len_sampler' = len_sampler]_vars

\* C9 witness: the caller has emptied its list, and the sampler has since
\* yielded a sample as large as the pool it was constructed with
C9_Witness ==
    /\ JustIterated
    /\ callerList = <<>>
    /\ Len(_transforms) = MaxPool
    /\ Len(choices) = MaxPool
    /\ pos = MaxPool

-----------------------------------------------------------------------------
(* The substitution engine's claims.                                       *)

\* C10: character-granularity substitution with probability 0.0 returns its
\* input string unchanged, for every input string and every mapping: no pass
\* of the scan changes the string, so the string returned is the one given.
C10_ProbabilityZeroIsIdentity == probability = 0 => string = original

\* C10 witness: _sub_chars has returned at probability 0.0 from a string of
\* full length in which the first pattern of a two-item mapping occurs
C10_Witness ==
    /\ spc = "done"
    /\ probability = 0
    /\ mapping = LeetLike
    /\ Len(original) = MaxLen
    /\ Find(Lower(original), mapping[1][1], 0) >= 0
    /\ string = original

\* the pattern occurs at 0-based position i of s, ignoring case: the lower
\* case of the characters s[i:i+len(pattern)] begins with the pattern (so that
\* U+0130 counts as an occurrence of "i", as it does for lower().find)
MatchesAt(s, i, pattern) ==
    /\ i + Len(pattern) <= Len(s)
    /\ Slice(Lower(Slice(s, i, i + Len(pattern))), 0, Len(pattern)) = pattern

\* the left-to-right non-overlapping replace-all of a non-empty pattern in s
\* from position i on, ignoring case
RECURSIVE ReplaceAllFrom(_, _, _, _)
ReplaceAllFrom(s, i, pattern, sub) ==
    IF i >= Len(s) THEN <<>>
    ELSE IF MatchesAt(s, i, pattern)
         THEN sub \o ReplaceAllFrom(s, i + Len(pattern), pattern, sub)
         ELSE <<s[i + 1]>> \o ReplaceAllFrom(s, i + 1, pattern, sub)

\* the fold of the replace-all over the items e, e + 1, ... of the mapping
RECURSIVE FoldReplaceAll(_, _, _)
FoldReplaceAll(s, items, e) ==
    IF e > Len(items) THEN s
    ELSE FoldReplaceAll(ReplaceAllFrom(s, 0, items[e][1], items[e][2]), items, e + 1)

\* the number of left-to-right non-overlapping occurrences of a non-empty
\* pattern in s from position i on, ignoring case
RECURSIVE Occurrences(_, _, _)
Occurrences(s, i, pattern) ==
    IF i >= Len(s) THEN 0
    ELSE IF MatchesAt(s, i, pattern)
         THEN 1 + Occurrences(s, i + Len(pattern), pattern)
         ELSE Occurrences(s, i + 1, pattern)

NoEmptyPattern == \A e \in 1..Len(mapping) : mapping[e][1] # <<>>

\* C12: character-granularity substitution with probability 1.0 returns the
\* fold, over the mapping items in order, of a case-insensitive left-to-right
\* non-overlapping replace-all of the pattern by the verbatim replacement
\* (stated for the mappings without an empty pattern, the only ones from
\* which a call on a non-empty string returns).
C12_ProbabilityOneReplacesAll ==
    (fn = "_sub_chars" /\ spc = "done" /\ probability = 100 /\ NoEmptyPattern) =>
        string = FoldReplaceAll(original, mapping, 1)

\* C13: when the scan of one (non-empty) pattern ends, the number of Bernoulli
\* draws it made equals the number of left-to-right non-overlapping
\* occurrences of the pattern in the string as it was when the scan began,
\* whatever the outcomes of the draws.
C13_OneDrawPerOccurrence ==
    [][(fn = "_sub_chars" /\ spc = "scan" /\ entry' = entry + 1 /\ Pattern # <<>>) =>
           draws = Occurrences(scanned, 0, Pattern)]_vars

\* the match the next pass of the while loop visits, when there is one
MatchPending == Scanning /\ InWhile /\ Find(Lower(string), Pattern, index) >= 0

\* the 0-based position in s of the character whose lower case holds the
\* 0-based position k of s.lower() (Len(s) when k is beyond s.lower())
RECURSIVE LowerOwner(_, _)
LowerOwner(s, k) ==
    IF s = <<>> THEN 0
    ELSE IF k < Len(LowerChar(Head(s))) THEN 0
    ELSE 1 + LowerOwner(Tail(s), k - Len(LowerChar(Head(s))))

\* the text the pending match matched: the positions (1-based) of string whose
\* lower case find matched the pattern against
MatchSpan ==
    LET i == Find(Lower(string), Pattern, index)
    IN  {LowerOwner(string, k) + 1 : k \in i..(i + Len(Pattern) - 1)}

\* C14, as claimed: the scan of a later mapping item never matches text that
\* the replacement of an earlier item wrote.
C14_LaterScanSkipsEarlierReplacement ==
    MatchPending => \A k \in MatchSpan : origin[k] \notin 1..(entry - 1)

\* C14, amended: mapping order is the order in which the scans run and
\* nothing more.  The for loop leaves an item only for the next one, and only
\* when that item's scan has ended (the cursor is outside the string or find
\* finds nothing); the next item's scan begins at position 0 of the string
\* exactly as the earlier scans left it, so it searches the text earlier
\* replacements wrote as well.
C14_LaterScanStartsAtZero ==
    [][(fn = "_sub_chars" /\ spc = "scan" /\ entry' # entry) =>
           /\ entry' = entry + 1
           /\ ~MatchPending
           /\ index' = 0
           /\ string' = string
           /\ scanned' = string
           /\ origin' = origin]_vars

\* C14 witness: the scan of the second item is about to visit a match made
\* of text that the first item's replacement wrote
C14_Witness ==
    /\ MatchPending
    /\ entry = 2
    /\ MatchSpan # {}
    /\ \A k \in MatchSpan : origin[k] = 1

\* C15: _sub_chars terminates: every pass of its while loop that finds the
\* pattern brings the cursor strictly closer to the end of the string.
C15_EveryPassShrinksRemainder ==
    [][(fn = "_sub_chars" /\ draws' = draws + 1) =>
           Len(string') - index' < Len(string) - index]_vars

\* every occurrence in s of a key or a value of CONTRACT, ignoring case, is a
\* key spelled as the mapping spells it
OnlyMappedPhrases(s) ==
    \A e \in 1..Len(CONTRACT), i \in 0..Len(s) :
        /\ MatchesAt(s, i, CONTRACT[e][1]) =>
               Slice(s, i, i + Len(CONTRACT[e][1])) = CONTRACT[e][1]
        /\ ~MatchesAt(s, i, CONTRACT[e][2])

\* C18: add_contractions at probability 1.0 followed by remove_contractions at
\* probability 1.0 returns the original string, for every string whose only
\* pattern occurrences are mapped phrases.
C18_ContractExpandRoundTrip ==
    (/\ fn = "_sub_chars" /\ spc = "done" /\ mapping = EXPAND /\ Len(earlier) = 1
     /\ probability = 100 /\ OnlyMappedPhrases(earlier[1])) =>
        string = earlier[1]

\* the lowest position i >= start at which the (non-empty) pattern occurs in
\* s, ignoring case, or -1
RECURSIVE FirstOccurrence(_, _, _)
FirstOccurrence(s, start, pattern) ==
    IF start + Len(pattern) > Len(s) THEN -1
    ELSE IF MatchesAt(s, start, pattern) THEN start
    ELSE FirstOccurrence(s, start + 1, pattern)

\* C24: for a single (non-empty) pattern and any outcome of the draws, every
\* pass of the scan that draws visits the first occurrence at or after the
\* cursor, at position i of the string; a successful draw replaces exactly
\* the characters of that occurrence by the replacement, verbatim, and puts
\* the cursor at i + len(replacement); a failed draw changes no character and
\* puts the cursor at i + len(pattern).
C24_DrawnOccurrenceReplaced ==
    [][(fn = "_sub_chars" /\ Len(mapping) = 1 /\ draws' = draws + 1 /\ Pattern # <<>>) =>
           LET i == FirstOccurrence(string, index, Pattern)
           IN  /\ i >= 0
               /\ \/ /\ string' = Slice(string, 0, i) \o Sub
                                      \o SliceFrom(string, i + Len(Pattern))
                     /\ index' = i + Len(Sub)
                  \/ /\ string' = string
                     /\ index' = i + Len(Pattern)]_vars

-----------------------------------------------------------------------------
(* The claims on word-granularity substitution.                            *)

SubWordsReturned == fn = "_sub_words" /\ spc = "done"

\* C11, as claimed: _sub_words with probability 0.0 returns its input string
\* unchanged, for every input string, whatever its whitespace, and every mapping.
C11_WordsProbabilityZeroIsIdentity ==
    (SubWordsReturned /\ probability = 0) => string = original

\* s has no leading or trailing whitespace and no whitespace other than single
\* spaces between its words
IsSingleSpaced(s) ==
    /\ \A i \in 1..Len(s) : s[i] \in Whitespace =>
          /\ s[i] = " "
          /\ 1 < i /\ i < Len(s)
          /\ s[i + 1] \notin Whitespace

\* C11, amended: _sub_words with probability 0.0 replaces no word: it returns
\* the words of its input, unchanged and in order, joined by single spaces,
\* for every input string and every mapping; that is the input string itself
\* exactly when the input has no leading or trailing whitespace and no
\* whitespace other than single spaces between words.
C11_WordsProbabilityZeroKeepsWords ==
    (SubWordsReturned /\ probability = 0) =>
        /\ string = Join(Split(original), <<" ">>)
        /\ IsSingleSpaced(string)
        /\ (string = original) <=> IsSingleSpaced(original)

\* C11 witness: remove_articles has returned the sentence of
\* test_remove_articles, which has articles in it, at probability 0.0
C11_Witness ==
    /\ SubWordsReturned
    /\ probability = 0
    /\ mapping = ArticlesMapping
    /\ original = THE_MAN_HAS_A_BROWN_DOG
    /\ draws > 0
    /\ string = original

\* C16, as a state predicate: the list words keeps the length of the input's
\* word list, and the string returned is the non-empty words joined by single spaces
C16_WordsJoined ==
    fn = "_sub_words" =>
        /\ Len(words) = Len(Split(original))
        /\ spc = "done" => string = Join(SelectSeq(words, NonEmpty), <<" ">>)

\* C16: a step of _sub_words changes at most the word under the cursor, and
\* only when that word's lower case equals the pattern exactly, to the
\* replacement verbatim; every other word stays as it is and where it is; the
\* string returned is the words left non-empty, joined by single spaces.
C16_WholeWordReplacement ==
    [][/\ C16_WordsJoined'
       /\ (fn = "_sub_words" /\ spc = "scan" /\ spc' = "scan") =>
              /\ Len(words') = Len(words)
              /\ \A k \in 1..Len(words) :
                    words'[k] # words[k] =>
                        /\ k = index + 1
                        /\ Lower(words[k]) = Pattern
                        /\ words'[k] = Sub]_vars

\* C16 witness: remove_articles at probability 0.5 has removed "The" and kept
\* "a" in the sentence of test_remove_articles
C16_Witness ==
    /\ SubWordsReturned
    /\ mapping = ArticlesMapping
    /\ original = THE_MAN_HAS_A_BROWN_DOG
    /\ string = MAN_HAS_BROWN_DOG_WITH_A

IsArticle(word) == \E e \in 1..Len(ARTICLES) : Lower(word) = ARTICLES[e]

\* C17: remove_articles at probability 1.0 returns a string none of whose
\* words is an article in lower case ("The man has a brown dog" gives "man has
\* brown dog"), and remove_articles at probability 1.0 applied to that string
\* returns it unchanged.
C17_RemoveArticlesIdempotent ==
    (SubWordsReturned /\ mapping = ArticlesMapping /\ probability = 100) =>
        /\ \A k \in 1..Len(Split(string)) : ~IsArticle(Split(string)[k])
        /\ (earlier = <<>> /\ original = THE_MAN_HAS_A_BROWN_DOG) => string = MAN_HAS_BROWN_DOG
        /\ Len(earlier) = 1 => string = original

\* C17 witness: the second remove_articles has returned "man has brown dog",
\* the string the first one made of "The man has a brown dog"
C17_Witness ==
    /\ SubWordsReturned
    /\ mapping = ArticlesMapping
    /\ probability = 100
    /\ earlier = <<THE_MAN_HAS_A_BROWN_DOG>>
    /\ original = MAN_HAS_BROWN_DOG
    /\ string = MAN_HAS_BROWN_DOG

-----------------------------------------------------------------------------
(* The claims on the adjacent-pair swap.                                   *)

SwapReturned == fn \in {"swap_chars", "swap_words"} /\ spc = "done"

\* the list xs with the elements at (0-based) positions 2k and 2k+1 exchanged
\* for every k with 2k+1 < len(xs)
PairSwapped(xs) ==
    [k \in 1..Len(xs) |->
        IF k % 2 = 1 THEN (IF k + 1 <= Len(xs) THEN xs[k + 1] ELSE xs[k]) ELSE xs[k - 1]]

\* C19: at probability 1.0 the swap exchanges the elements at positions 2k
\* and 2k+1 for every k with 2k+1 < length and leaves a trailing unpaired
\* element in place: swap_chars maps "The man" to "hT eamn" and swap_words
\* maps "The man has a brown dog" to "man The a has dog brown".
C19_ProbabilityOneSwapsPairs ==
    (SwapReturned /\ probability = 100) =>
        /\ perm = PairSwapped([k \in 1..Len(perm) |-> k - 1])
        /\ fn = "swap_chars" => string = Join(PairSwapped(ListOf(original)), <<>>)
        /\ (fn = "swap_chars" /\ original = THE_MAN) => string = HT_EAMN
        /\ (fn = "swap_words" /\ original = THE_MAN_HAS_A_BROWN_DOG) =>
               string = MAN_THE_A_HAS_DOG_BROWN

\* C19 witness: swap_words has returned "man The a has dog brown" at probability 1.0
C19_Witness ==
    /\ SwapReturned
    /\ fn = "swap_words"
    /\ probability = 100
    /\ original = THE_MAN_HAS_A_BROWN_DOG
    /\ string = MAN_THE_A_HAS_DOG_BROWN

\* C20, as a state predicate: the list is a permutation of the input's
\* elements in which every element is at its original index or next to it, at
\* most length-1 draws were made, and the string returned is the list joined
C20_AdjacentPermutation ==
    fn \in {"swap_chars", "swap_words"} =>
        /\ Len(perm) = Len(words)
        /\ Range(perm) = 0..(Len(words) - 1)
        /\ \A k \in 1..Len(words) :
              /\ perm[k] \in {k - 2, k - 1, k}
              /\ words[k] = SwapElements(fn, original)[perm[k] + 1]
        /\ draws <= Max(Len(words) - 1, 0)
        /\ spc = "done" => string = SwapJoined(fn, words)

\* C20: for every input and every outcome of the draws the swap returns a
\* permutation of the input's elements in which every element ends at its
\* original index or at an index adjacent to it; at most length-1 draws are
\* made; a successful swap moves the cursor past both of its positions, and
\* no position before the cursor changes again, so no element takes part in
\* more than one swap.
C20_SwapsDoNotOverlap ==
    [][/\ C20_AdjacentPermutation'
       /\ Swapping =>
             /\ \A k \in 1..index : perm'[k] = perm[k] /\ words'[k] = words[k]
             /\ perm' # perm => index' = index + 2]_vars

\* C20 witness: swap_chars has returned from "The man" at probability 0.5
\* after skipping the first pair, swapping the second and third characters,
\* and swapping the last two
C20_Witness ==
    /\ SwapReturned
    /\ fn = "swap_chars"
    /\ original = THE_MAN
    /\ perm = <<0, 2, 1, 3, 4, 6, 5>>
    /\ draws = 5

-----------------------------------------------------------------------------
(* The claims on the right-to-left scans.                                  *)

ScanReturned == fn \in ScanFunctions /\ spc = "done"

\* the characters at the positions 0..i of the string are those of the
\* input, at their original positions
OriginalUpTo(i) ==
    \A k \in 1..Min(i + 1, Len(original)) :
        /\ k <= Len(string)
        /\ string[k] = original[k]
        /\ perm[k] = k - 1

\* C25, as a state predicate: while index i is about to be visited, the
\* characters below i, and the character at i, are the original ones, and the
\* indexes above i down from the first have each been visited once.
C25_UnvisitedPrefixIsOriginal ==
    (InScan \/ ScanReturned) =>
        /\ OriginalUpTo(index)
        /\ -1 <= index
        /\ draws = ScanFirst(fn, original) - index
        /\ ScanReturned => index = -1

\* C25: in the right-to-left scans, when position i is visited the characters
\* at the positions below i (and the character at i) are exactly the original
\* ones; the edit of the pass changes nothing to the left of i, so every edit
\* made so far lies to the right of the positions still to visit; every pass
\* moves to the next lower index, so each original position is visited
\* exactly once.
C25_EditsStayRightOfCursor ==
    [][/\ C25_UnvisitedPrefixIsOriginal'
       /\ (InScan /\ draws' = draws + 1) =>
             /\ index' = index - 1
             /\ Slice(string', 0, index) = Slice(string, 0, index)
             /\ Slice(string', 0, index) = Slice(original, 0, index)]_vars

\* C25 witness: add_macbook_keyboard on "dog" has doubled the "g" and removed
\* the "o", and is about to visit index 0
C25_Witness ==
    /\ InScan
    /\ fn = "add_macbook_keyboard"
    /\ original = DOG
    /\ index = 0
    /\ string = <<"d", "g", "g">>

\* the positions of the string that hold characters of the input
Kept == {k \in 1..Len(perm) : perm[k] >= 0}

\* the characters of the input that the string holds are in their original order
KeptInOrder ==
    /\ \A k \in Kept : string[k] = original[perm[k] + 1]
    /\ \A k, l \in Kept : k < l => perm[k] < perm[l]

\* C26: for an input of length n, add_characters makes n draws and returns
\* n + successes characters; remove_characters makes n draws and returns the
\* n - successes surviving characters in their original order; add_whitespace
\* makes n + 1 draws and returns n + successes characters of which the
\* original ones are a subsequence, the others spaces; at probability 1.0 the
\* lengths are 2n, 0 and 2n + 1 ("dog" gives " d o g ", "" gives " "); at
\* probability 0.0 each returns its input.
C26_DrawsAndLengths ==
    LET n == Len(original)
    IN  /\ (ScanReturned /\ fn = "add_characters") =>
               /\ draws = n
               /\ Len(string) = n + successes
               /\ probability = 100 => Len(string) = 2 * n
        /\ (ScanReturned /\ fn = "remove_characters") =>
               /\ draws = n
               /\ Len(string) = n - successes
               /\ Kept = 1..Len(string)
               /\ KeptInOrder
               /\ probability = 100 => Len(string) = 0
        /\ (ScanReturned /\ fn = "add_whitespace") =>
               /\ draws = n + 1
               /\ Len(string) = n + successes
               /\ Cardinality(Kept) = n
               /\ KeptInOrder
               /\ \A k \in (1..Len(string)) \ Kept : string[k] = " "
               /\ probability = 100 =>
                     /\ Len(string) = 2 * n + 1
                     /\ original = DOG => string = <<" ", "d", " ", "o", " ", "g", " ">>
                     /\ original = <<>> => string = <<" ">>
        /\ (ScanReturned /\ fn \in {"add_characters", "remove_characters", "add_whitespace"}
              /\ probability = 0) => string = original

\* C26 witness: add_whitespace has returned " d o g " from "dog" at
\* probability 1.0 after four draws
C26_Witness ==
    /\ ScanReturned
    /\ fn = "add_whitespace"
    /\ original = DOG
    /\ probability = 100
    /\ draws = 4
    /\ string = <<" ", "d", " ", "o", " ", "g", " ">>

-----------------------------------------------------------------------------
(* The claims on the frequency-domain transforms.                          *)

FreqReturned == fn \in FreqFunctions /\ spc = "done" /\ ~res.raised

\* C23: every frequency-domain transform returns a sequence with the same
\* number of entries as its input, for every input length, every p and m and
\* every outcome of the draws.
C23_ReturnsSameLength == FreqReturned => res.len = xlen

\* C28: add_discrete_phase_shifts ignores the 0th frequency component and
\* moves no component twice: position 0 of fx is never exchanged and keeps
\* component 0, and every position takes part in at most one exchange.
C28_ZerothIgnoredAndSwapsOnce ==
    (fn = "add_discrete_phase_shifts" /\ spc # "idle" /\ ~res.raised) =>
        /\ fx[1].c = 0
        /\ swaps[1] = 0
        /\ \A k \in 1..Len(swaps) : swaps[k] <= 1

-----------------------------------------------------------------------------
(* The claims on the translator.                                           *)

\* C22, as a state predicate: a model is loaded at most once for its first
\* use and once more for every forced reload; after every call that returned,
\* both models are in the class-level table; a model that was loaded is in
\* the table.
C22_LoadedAtMostOnce ==
    /\ \A name \in ModelNames :
          /\ loads[name] <= 1 + forces
          /\ forces = 0 => loads[name] <= 1
          /\ (loads[name] > 0) <=> (name \in translators)
    /\ (tcall.op \in {"load_models", "__init__"} /\ tcall.raised = "") =>
           translators = ModelNames
    /\ made > 0 => translators = ModelNames

\* C22: over any sequence of _Translator() constructions and load_models
\* calls, a call without force loads a model only when the table does not
\* hold it yet (on first use), so each model is loaded at most once and later
\* instances do not reload; a call of load_models(force=True) that returns
\* has loaded both models again; after every call that returned, both models
\* are in the class-level table, and no call removes a model from it.
C22_LazySingleton ==
    [][/\ C22_LoadedAtMostOnce'
       /\ translators \subseteq translators'
       /\ \A name \in ModelNames :
             /\ loads'[name] \in {loads[name], loads[name] + 1}
             /\ (loads'[name] # loads[name] /\ ~tcall'.force) => name \notin translators
             /\ (tcall'.n # tcall.n /\ tcall'.force /\ tcall'.raised = "") =>
                    loads'[name] = loads[name] + 1]_vars

\* C22 witness: a second _Translator() has been constructed after a forced
\* reload of both models, so each model was loaded twice, and the
\* construction loaded nothing
C22_Witness ==
    /\ tcall.op = "__init__"
    /\ tcall.raised = ""
    /\ made = 2
    /\ forces = 1
    /\ loads = [name \in ModelNames |-> 2]

\* C29: add_backtranslation returns an empty input string unchanged for every
\* p, before any random draw and before any translator is constructed: the
\* call draws nothing, loads nothing and constructs nothing.
C29_EmptyStringReturnedAtOnce ==
    [][(tcall'.n # tcall.n /\ tcall'.op = "add_backtranslation" /\ original' = <<>>) =>
           /\ string' = <<>>
           /\ tcall'.raised = ""
           /\ draws' = draws
           /\ UNCHANGED <<translators, loads, made>>]_vars

\* C29 witness: add_backtranslation has returned the empty string at
\* probability 1.0 while no model was loaded and no draw was ever made
C29_Witness ==
    /\ tcall.op = "add_backtranslation"
    /\ fn = "add_backtranslation"
    /\ original = <<>>
    /\ probability = 100
    /\ string = <<>>
    /\ translators = {}
    /\ draws = 0

-----------------------------------------------------------------------------
(* The claims on two samplers used side by side.                           *)

\* the state of a generator seeded like that of sampler s after the first
\* k - 1 choice calls that s made: the one s would be in if used alone
AloneBefore(s, k) ==
    [seed |-> samplers[s]._rng.seed, used |-> [j \in 1..(k - 1) |-> yielded[s][j].args]]

\* C21: each sampler owns a private generator: whatever the interleaving of
\* constructions, reassignments and iterations on two samplers, the k-th
\* selection a sampler yields is the one a generator with its seed returns
\* after that sampler's own earlier iterations alone, and its generator has
\* been advanced by its own iterations only.
C21_SelectionsAsIfAlone ==
    \A s \in Instances :
        samplers[s].live =>
            /\ samplers[s]._rng = AloneBefore(s, Len(yielded[s]) + 1)
            /\ \A k \in 1..Len(yielded[s]) :
                  \E e \in oracle :
                      /\ e.rng = AloneBefore(s, k)
                      /\ e.args = yielded[s][k].args
                      /\ e.idx = yielded[s][k].idx
                      /\ \A o \in oracle : (o.rng = e.rng /\ o.args = e.args) => o = e

\* C21 witness: two samplers with the same seed have made MaxIterations
\* selections together, the first one two of them with n reassigned in
\* between while the second one made its first, the same as the first one's
C21_Witness ==
    /\ \A s \in Instances : samplers[s].live
    /\ Len(yielded[1]) + Len(yielded[2]) = MaxIterations
    /\ samplers[1]._rng.seed = samplers[2]._rng.seed
    /\ Len(yielded[1]) >= 2
    /\ Len(yielded[2]) >= 1
    /\ yielded[1][1].args # yielded[1][2].args
    /\ yielded[1][1] = yielded[2][1]
    /\ last[2].op = "iter"

\* C27: a rejected assignment to n leaves the sampler unchanged (n, m, the
\* pool, the shuffle flag and the generator state keep their values), and
\* the next iteration yields the previous n functions.
C27_RejectedAssignmentKeepsSampler ==
    [][\A s \in Instances :
          /\ (last'[s] = Call("n_set", TRUE) /\ yielded' = yielded) =>
                 samplers'[s] = samplers[s]
          /\ (last[s] = Call("n_set", TRUE) /\ last'[s].op = "iter") =>
                 /\ ~last'[s].raised
                 /\ Len(yielded'[s]) = Len(yielded[s]) + 1
                 /\ Len(yielded'[s][Len(yielded'[s])].idx) = samplers[s]._n]_vars

-----------------------------------------------------------------------------
(* The claims on the text dataset.                                         *)

\* the text the k-th transform call of the access is given
GivenTo(k) == IF k = 1 THEN inp ELSE applied[k - 1].out

\* C30: a text dataset applies its configured transforms to an item's text
\* one after another in iteration order, each receiving the previous one's
\* output, before tokenising and vectorising; with no transforms configured
\* the text is unchanged; when the transforms object is a RandAugment sampler
\* every item access draws a new sample and applies exactly n transforms.
C30_TransformsAppliedInOrder ==
    access.at # "idle" =>
        /\ \A k \in 1..Len(applied) :
              /\ applied[k].fun = choices[k].fun
              /\ applied[k].p = choices[k].p
              /\ applied[k].arg = GivenTo(k)
        /\ text = GivenTo(Len(applied) + 1)
        /\ access.at \in {"tokenized", "returned"} =>
              /\ Len(applied) = Len(choices)
              /\ access.tokens = Tokenizer(text)
              /\ choices = <<>> => text = inp
        /\ access.at = "returned" => access.vector = Vectorize(access.tokens)
        /\ dataset._transforms = "list" => choices = dataset.items
        /\ dataset._transforms = "sampler" =>
              /\ access.at # "raised"
              /\ Len(choices) = access.n
              /\ access.at \in {"tokenized", "returned"} => Len(applied) = access.n

=============================================================================
